---- MODULE Spec2Model ----
(***************************************************************************)
(* A model of the Pong game of src/game.py and src/ponggame/: the session  *)
(* state machine (menu, playing, paused, game over), the per-frame         *)
(* simulation step (PongGame.update), the entities (Paddle, Ball), the bot *)
(* (BotController), the score tracker (ScoreManager) and the viewport      *)
(* configuration (GameConfig).                                             *)
(*                                                                         *)
(* Numbers.  The program computes positions and speeds in floating point.  *)
(* The model keeps every length and speed in fixed point: one pixel is Q   *)
(* units, and a product or quotient that is not a whole number of units is *)
(* rounded to the nearest unit.  Sizes that the program truncates with     *)
(* int() (the GameConfig fields, the pygame.Rect coordinates) are          *)
(* truncated here as well.                                                 *)
(*                                                                         *)
(* Objects.  A Python object is a record of its fields, a method is an     *)
(* operator from the object (and the arguments) to the object after the    *)
(* call.  The PongGame object is the record Game of the variables below.   *)
(***************************************************************************)
EXTENDS Integers, Sequences, FiniteSets, TLC

\* ---------------------------------------------------------------- numbers

\* Fixed-point units per pixel.
Q == 10 * 100

Abs(n) == IF n < 0 THEN -n ELSE n

Sign(n) == IF n < 0 THEN -1 ELSE IF n > 0 THEN 1 ELSE 0

\* n / d rounded to the nearest integer (d > 0).
Round(n, d) == n \div d + (IF 2 * (n % d) >= d THEN 1 ELSE 0)

\* int(v) of a fixed-point v, in pixels: truncation toward zero.
Trunc(v) == IF v >= 0 THEN v \div Q ELSE -((-v) \div Q)

RECURSIVE Gcd(_, _)
Gcd(a, b) == IF b = 0 THEN a ELSE Gcd(b, a % b)

\* v / den * num in one rounding (the float computation is exact to 1e-13).
MulDiv(v, num, den) ==
    LET g == Gcd(num, den) IN Round(v * (num \div g), den \div g)

\* Python's None, for a field that otherwise holds an object or a number.
None == [none |-> TRUE]

Some(v) == [val |-> v]

\* Python's None, for a field that otherwise holds a string.
NoneStr == "None"

\* ----------------------------------------------------------- game_state.py

MENU == "MENU"
PLAYING == "PLAYING"
PAUSED == "PAUSED"
GAME_OVER == "GAME_OVER"

GameState == {MENU, PLAYING, PAUSED, GAME_OVER}

ScoreManager(winning_score) ==
    [winning_score |-> winning_score, player_score |-> 0, bot_score |-> 0]

\* increment_player_score counting a point twice.
increment_player_score_twice(sm) == [sm EXCEPT !.player_score = @ + 2]

increment_player_score(sm) == [sm EXCEPT !.player_score = @ + 1]

increment_bot_score(sm) == [sm EXCEPT !.bot_score = @ + 1]

reset(sm) == [sm EXCEPT !.player_score = 0, !.bot_score = 0]

\* check_winner with > for >=: a score at the threshold does not win.
check_winner_above(sm) ==
    IF sm.player_score > sm.winning_score THEN "Player"
    ELSE IF sm.bot_score > sm.winning_score THEN "Bot"
    ELSE NoneStr

\* check_winner with the labels exchanged.
check_winner_swapped(sm) ==
    IF sm.player_score >= sm.winning_score THEN "Bot"
    ELSE IF sm.bot_score >= sm.winning_score THEN "Player"
    ELSE NoneStr

\* check_winner with the bot's score tested first.
check_winner_bot_first(sm) ==
    IF sm.bot_score >= sm.winning_score THEN "Bot"
    ELSE IF sm.player_score >= sm.winning_score THEN "Player"
    ELSE NoneStr

check_winner(sm) ==
    IF sm.player_score >= sm.winning_score THEN "Player"
    ELSE IF sm.bot_score >= sm.winning_score THEN "Bot"
    ELSE NoneStr

get_scores(sm) == <<sm.player_score, sm.bot_score>>

\* ---------------------------------------------------------- game_config.py

VERY_EASY == "VERY_EASY"
EASY == "EASY"
MEDIUM == "MEDIUM"
HARD == "HARD"

Difficulty == {VERY_EASY, EASY, MEDIUM, HARD}

SCREEN_WIDTH == 800
SCREEN_HEIGHT == 600
MIN_WIDTH == 600
MIN_HEIGHT == 400
WINNING_SCORE == 10
RESET_DELAY_MS == 2000

Max(a, b) == IF a >= b THEN a ELSE b

\* The ball and bot speeds of a difficulty, in units per frame at width 800.
DIFFICULTY_SETTINGS ==
    [d \in Difficulty |->
        CASE d = VERY_EASY -> [ball_speed |-> 2200, bot_speed |-> 1500]
          [] d = EASY      -> [ball_speed |-> 3500, bot_speed |-> 2200]
          [] d = MEDIUM    -> [ball_speed |-> 6000, bot_speed |-> 4000]
          [] d = HARD      -> [ball_speed |-> 8400, bot_speed |-> 6500]]

\* update_screen_size with the height taken as given.
update_screen_size_any_height(width, height) ==
    LET W == Max(width, MIN_WIDTH)
        H == height
    IN  [SCREEN_WIDTH   |-> W,
         SCREEN_HEIGHT  |-> H,
         PADDLE_WIDTH   |-> (W * 1875) \div 100000,
         PADDLE_HEIGHT  |-> (H * 1667) \div 10000,
         PADDLE_OFFSET  |-> (W * 375) \div 10000,
         PLAYER_SPEED   |-> Round(W * 875 * (Q \div 100), 1000),
         BALL_RADIUS    |-> W \div 100,
         BUTTON_WIDTH   |-> (W * 25) \div 100,
         BUTTON_HEIGHT  |-> (H * 10) \div 100,
         BUTTON_SPACING |-> (H * 5) \div 100]

\* GameConfig.update_screen_size: the config for a window of width x height.
\* int(size * ratio) is the floor of the exact product; the sizes are pixels,
\* PLAYER_SPEED is fixed point.
update_screen_size(width, height) ==
    LET W == Max(width, MIN_WIDTH)
        H == Max(height, MIN_HEIGHT)
    IN  [SCREEN_WIDTH   |-> W,
         SCREEN_HEIGHT  |-> H,
         PADDLE_WIDTH   |-> (W * 1875) \div 100000,
         PADDLE_HEIGHT  |-> (H * 1667) \div 10000,
         PADDLE_OFFSET  |-> (W * 375) \div 10000,
         PLAYER_SPEED   |-> Round(W * 875 * (Q \div 100), 1000),
         BALL_RADIUS    |-> W \div 100,
         BUTTON_WIDTH   |-> (W * 25) \div 100,
         BUTTON_HEIGHT  |-> (H * 10) \div 100,
         BUTTON_SPACING |-> (H * 5) \div 100]

GameConfig == update_screen_size(SCREEN_WIDTH, SCREEN_HEIGHT)

get_difficulty_settings(difficulty) ==
    IF difficulty \in Difficulty THEN DIFFICULTY_SETTINGS[difficulty]
    ELSE DIFFICULTY_SETTINGS[EASY]

scale_speed(cfg, base_speed) == Round(base_speed * cfg.SCREEN_WIDTH, 800)

\* --------------------------------------------------------- game_objects.py

Paddle(x, y, width, height, speed) ==
    [width |-> width, height |-> height, x |-> x, y |-> y,
     speed |-> speed, velocity |-> 0, target_y |-> y]

\* The boundary check shared by Paddle.move and Paddle.smooth_move_to.
ClampPaddle(y, height, screen_height) ==
    IF y < 0 THEN 0
    ELSE IF y + height > screen_height * Q THEN screen_height * Q - height
    ELSE y

Paddle_move(p, direction, screen_height) ==
    LET v == direction * p.speed
    IN  [p EXCEPT !.velocity = v,
                  !.y = ClampPaddle(p.y + v, p.height, screen_height)]

\* smoothing is in thousandths.
smooth_move_to(p, target_y, smoothing, screen_height) ==
    LET diff == target_y - p.y
        y1 == p.y + Round(diff * smoothing, 1000)
    IN  [p EXCEPT !.target_y = target_y,
                  !.y = ClampPaddle(y1, p.height, screen_height)]

\* pygame.Rect(x, y, w, h) of fixed-point arguments: whole pixels.
Rect(x, y, w, h) == [x |-> Trunc(x), y |-> Trunc(y), w |-> Trunc(w), h |-> Trunc(h)]

get_rect(p) == Rect(p.x, p.y, p.width, p.height)

colliderect(a, b) ==
    /\ a.x < b.x + b.w
    /\ b.x < a.x + a.w
    /\ a.y < b.y + b.h
    /\ b.y < a.y + a.h

\* pos is a pixel position <<x, y>>.
collidepoint(r, pos) ==
    /\ r.x <= pos[1] /\ pos[1] < r.x + r.w
    /\ r.y <= pos[2] /\ pos[2] < r.y + r.h

Ball(x, y, radius, speed) ==
    [width |-> radius * 2, height |-> radius * 2, base_speed |-> speed,
     x |-> x, y |-> y, radius |-> radius,
     velocity_x |-> 0, velocity_y |-> 0,
     initial_x |-> x, initial_y |-> y]

\* Ball.reset_position.  target_y is None or Some(y).  rnd holds the draws of
\* reset_position with the aimed serve at 0.6 of the base speed.
reset_position_slow_aimed(b, direction, target_y, rnd) ==
    LET dir == IF direction = 0 THEN rnd.choice1 ELSE direction
        edge == IF dir < 0 THEN 0 ELSE b.initial_x * 2
        y_diff == IF target_y = None THEN 0 ELSE target_y.val - b.initial_y
        aim == MulDiv(y_diff, 1000, Abs(b.initial_x - edge))
        vy == IF target_y # None
              THEN Round(aim * b.base_speed * 6, 10000)
              ELSE Round(b.base_speed * rnd.choice2 * rnd.uniform, 1000)
    IN  [b EXCEPT !.x = b.initial_x,
                  !.y = b.initial_y,
                  !.velocity_x = IF target_y # None
                                 THEN Round(b.base_speed * dir * 6, 10)
                                 ELSE b.base_speed * dir,
                  !.velocity_y = vy]

\* the random source: rnd.choice1 and rnd.choice2 are the results of the two
\* random.choice([-1, 1]) calls, rnd.uniform the result of
\* random.uniform(0.5, 1.0) in thousandths.
reset_position(b, direction, target_y, rnd) ==
    LET dir == IF direction = 0 THEN rnd.choice1 ELSE direction
        edge == IF dir < 0 THEN 0 ELSE b.initial_x * 2
        y_diff == IF target_y = None THEN 0 ELSE target_y.val - b.initial_y
        aim == MulDiv(y_diff, 1000, Abs(b.initial_x - edge))
        vy == IF target_y # None
              THEN Round(aim * b.base_speed * 6, 10000)
              ELSE Round(b.base_speed * rnd.choice2 * rnd.uniform, 1000)
    IN  [b EXCEPT !.x = b.initial_x,
                  !.y = b.initial_y,
                  !.velocity_x = b.base_speed * dir,
                  !.velocity_y = vy]

\* Ball.move with the ball left where the wall bounce found it.
Ball_move_past_wall(b, screen_width, screen_height) ==
    LET x1 == b.x + b.velocity_x
        y1 == b.y + b.velocity_y
        top == y1 - b.radius <= 0
        bottom == y1 + b.radius >= screen_height * Q
    IN  IF top \/ bottom
        THEN [b EXCEPT !.x = x1, !.velocity_y = -b.velocity_y, !.y = y1]
        ELSE [b EXCEPT !.x = x1, !.y = y1]

Ball_move(b, screen_width, screen_height) ==
    LET x1 == b.x + b.velocity_x
        y1 == b.y + b.velocity_y
        top == y1 - b.radius <= 0
        bottom == y1 + b.radius >= screen_height * Q
    IN  IF top \/ bottom
        THEN [b EXCEPT !.x = x1,
                       !.velocity_y = -b.velocity_y,
                       !.y = IF top THEN b.radius
                             ELSE screen_height * Q - b.radius]
        ELSE [b EXCEPT !.x = x1, !.y = y1]

bounce_off_paddle(b, p) ==
    LET paddle_center == p.y + p.height \div 2
        hit_pos == Round((b.y - paddle_center) * 2000, p.height)
    IN  [b EXCEPT !.velocity_x = -b.velocity_x,
                  !.velocity_y = Round(hit_pos * b.base_speed * 8, 10000)]

check_paddle_collision(b, p) ==
    colliderect(Rect(b.x - b.radius, b.y - b.radius, b.radius * 2, b.radius * 2),
                get_rect(p))

\* The random source.  Each call of the random module takes its result from
\* the record rnd of the step: choice1, choice2 (random.choice([-1, 1])),
\* uniform (random.uniform(0.5, 1.0), thousandths), random (random.random(),
\* hundredths), error (random.uniform(-e, e), thousandths of e) and randint
\* (random.randint(0, n), thousandths of n).
BotController(difficulty) ==
    [difficulty |-> difficulty,
     smoothing_factor |->
        CASE difficulty = VERY_EASY -> 25
          [] difficulty = EASY      -> 40
          [] difficulty = MEDIUM    -> 80
          [] difficulty = HARD      -> 140
          [] OTHER                  -> 40,
     accuracy |->
        CASE difficulty = VERY_EASY -> 45
          [] difficulty = EASY      -> 65
          [] difficulty = MEDIUM    -> 85
          [] difficulty = HARD      -> 97
          [] OTHER                  -> 65,
     reaction_delay |-> 0,
     max_reaction_delay |->
        CASE difficulty = VERY_EASY -> 22
          [] difficulty = EASY      -> 14
          [] difficulty = MEDIUM    -> 6
          [] difficulty = HARD      -> 1
          [] OTHER                  -> 14]

error_range(difficulty) ==
    CASE difficulty = VERY_EASY -> 60
      [] difficulty = EASY      -> 30
      [] difficulty = MEDIUM    -> 16
      [] OTHER                  -> 7

\* BotController.update aiming at the ball during the countdown as well.
BotController_update_always_aiming(bc, paddle, ball, screen_height, rnd) ==
    IF bc.reaction_delay > 0
    THEN [paddle |-> smooth_move_to(paddle, ball.y - paddle.height \div 2,
                                    bc.smoothing_factor, screen_height),
          bot_controller |-> [bc EXCEPT !.reaction_delay = @ - 1]]
    ELSE LET aim == ball.y - paddle.height \div 2
             target_y == IF rnd.random > bc.accuracy
                         THEN aim + Round(error_range(bc.difficulty) * Q * rnd.error, 1000)
                         ELSE aim
         IN  [paddle |-> smooth_move_to(paddle, target_y,
                                        bc.smoothing_factor, screen_height),
              bot_controller |->
                  [bc EXCEPT !.reaction_delay =
                       Round(bc.max_reaction_delay * rnd.randint, 1000)]]

\* BotController.update: the controller and the paddle after the call.
BotController_update(bc, paddle, ball, screen_height, rnd) ==
    IF bc.reaction_delay > 0
    THEN [paddle |-> smooth_move_to(paddle, paddle.target_y,
                                    bc.smoothing_factor, screen_height),
          bot_controller |-> [bc EXCEPT !.reaction_delay = @ - 1]]
    ELSE LET aim == ball.y - paddle.height \div 2
             target_y == IF rnd.random > bc.accuracy
                         THEN aim + Round(error_range(bc.difficulty) * Q * rnd.error, 1000)
                         ELSE aim
         IN  [paddle |-> smooth_move_to(paddle, target_y,
                                        bc.smoothing_factor, screen_height),
              bot_controller |->
                  [bc EXCEPT !.reaction_delay =
                       Round(bc.max_reaction_delay * rnd.randint, 1000)]]

\* ----------------------------------------------------------- ui_renderer.py

\* A rectangle of whole pixels.
PxRect(x, y, w, h) == [x |-> x, y |-> y, w |-> w, h |-> h]

MenuDifficulties == <<VERY_EASY, EASY, MEDIUM, HARD>>

ButtonX(cfg) == cfg.SCREEN_WIDTH \div 2 - cfg.BUTTON_WIDTH \div 2

\* UIRenderer.draw_menu: the difficulty buttons, top to bottom.
draw_menu(cfg) ==
    LET start_y == (cfg.SCREEN_HEIGHT * 40) \div 100
    IN  [i \in 1..4 |->
            [difficulty |-> MenuDifficulties[i],
             rect |-> PxRect(ButtonX(cfg),
                             start_y + (i - 1) * (cfg.BUTTON_HEIGHT + cfg.BUTTON_SPACING),
                             cfg.BUTTON_WIDTH, cfg.BUTTON_HEIGHT)]]

\* UIRenderer.draw_pause_menu: the buttons "resume" and "new_game".
draw_pause_menu(cfg) ==
    LET start_y == (cfg.SCREEN_HEIGHT * 45) \div 100
        button(i) == PxRect(ButtonX(cfg),
                            start_y + i * (cfg.BUTTON_HEIGHT + cfg.BUTTON_SPACING),
                            cfg.BUTTON_WIDTH, cfg.BUTTON_HEIGHT)
    IN  [resume |-> button(0), new_game |-> button(1)]

\* UIRenderer.draw_game_over: the "Play Again" button.
draw_game_over(cfg) ==
    PxRect(ButtonX(cfg), (cfg.SCREEN_HEIGHT * 50) \div 100,
           cfg.BUTTON_WIDTH, cfg.BUTTON_HEIGHT)

\* ------------------------------------------------------------------ game.py

EmptyDict == [k \in {} |-> None]

\* PongGame.__init__: the game object after construction.  screen is the size
\* of the display surface.
PongGame ==
    [ball |-> None,
     bot_controller |-> None,
     config |-> GameConfig,
     screen |-> [w |-> GameConfig.SCREEN_WIDTH, h |-> GameConfig.SCREEN_HEIGHT],
     state |-> MENU,
     score_manager |-> ScoreManager(WINNING_SCORE),
     player_paddle |-> None,
     bot_paddle |-> None,
     keys_pressed |-> {},
     current_difficulty |-> NoneStr,
     menu_buttons |-> << >>,
     pause_buttons |-> EmptyDict,
     play_again_button |-> None,
     winner |-> NoneStr,
     reset_timer |-> 0,
     waiting_for_reset |-> FALSE,
     last_scorer |-> NoneStr]

\* initialize_game_objects without the reset of the scores.
initialize_game_objects_keeping_scores(g, difficulty, rnd) ==
    LET cfg == g.config
        settings == get_difficulty_settings(difficulty)
        ball_speed == scale_speed(cfg, settings.ball_speed)
        bot_speed == scale_speed(cfg, settings.bot_speed)
        paddle_y == (cfg.SCREEN_HEIGHT \div 2 - cfg.PADDLE_HEIGHT \div 2) * Q
    IN  [g EXCEPT
            !.current_difficulty = difficulty,
            !.player_paddle =
                Paddle(cfg.PADDLE_OFFSET * Q, paddle_y,
                       cfg.PADDLE_WIDTH * Q, cfg.PADDLE_HEIGHT * Q, cfg.PLAYER_SPEED),
            !.bot_paddle =
                Paddle((cfg.SCREEN_WIDTH - cfg.PADDLE_OFFSET - cfg.PADDLE_WIDTH) * Q,
                       paddle_y,
                       cfg.PADDLE_WIDTH * Q, cfg.PADDLE_HEIGHT * Q, bot_speed),
            !.ball =
                reset_position(Ball((cfg.SCREEN_WIDTH \div 2) * Q,
                                    (cfg.SCREEN_HEIGHT \div 2) * Q,
                                    cfg.BALL_RADIUS * Q, ball_speed),
                               0, None, rnd),
            !.bot_controller = BotController(difficulty),
            !.waiting_for_reset = FALSE,
            !.reset_timer = 0,
            !.last_scorer = NoneStr]

initialize_game_objects(g, difficulty, rnd) ==
    LET cfg == g.config
        settings == get_difficulty_settings(difficulty)
        ball_speed == scale_speed(cfg, settings.ball_speed)
        bot_speed == scale_speed(cfg, settings.bot_speed)
        paddle_y == (cfg.SCREEN_HEIGHT \div 2 - cfg.PADDLE_HEIGHT \div 2) * Q
    IN  [g EXCEPT
            !.current_difficulty = difficulty,
            !.player_paddle =
                Paddle(cfg.PADDLE_OFFSET * Q, paddle_y,
                       cfg.PADDLE_WIDTH * Q, cfg.PADDLE_HEIGHT * Q, cfg.PLAYER_SPEED),
            !.bot_paddle =
                Paddle((cfg.SCREEN_WIDTH - cfg.PADDLE_OFFSET - cfg.PADDLE_WIDTH) * Q,
                       paddle_y,
                       cfg.PADDLE_WIDTH * Q, cfg.PADDLE_HEIGHT * Q, bot_speed),
            !.ball =
                reset_position(Ball((cfg.SCREEN_WIDTH \div 2) * Q,
                                    (cfg.SCREEN_HEIGHT \div 2) * Q,
                                    cfg.BALL_RADIUS * Q, ball_speed),
                               0, None, rnd),
            !.bot_controller = BotController(difficulty),
            !.score_manager = reset(g.score_manager),
            !.waiting_for_reset = FALSE,
            !.reset_timer = 0,
            !.last_scorer = NoneStr]

\* PongGame.resize_game_objects.  The ratios are taken against the display
\* surface, which handle_input has already replaced by one of the new size.
resize_game_objects(g) ==
    IF g.player_paddle = None \/ g.bot_paddle = None \/ g.ball = None THEN g
    ELSE
    LET cfg == g.config
        H == cfg.SCREEN_HEIGHT
        W == cfg.SCREEN_WIDTH
        settings == get_difficulty_settings(g.current_difficulty)
        ball_speed == scale_speed(cfg, settings.ball_speed)
        bot_speed == scale_speed(cfg, settings.bot_speed)
    IN  [g EXCEPT
            !.player_paddle =
                [@ EXCEPT !.x = cfg.PADDLE_OFFSET * Q,
                          !.y = MulDiv(g.player_paddle.y, H, g.screen.h),
                          !.width = cfg.PADDLE_WIDTH * Q,
                          !.height = cfg.PADDLE_HEIGHT * Q,
                          !.speed = cfg.PLAYER_SPEED],
            !.bot_paddle =
                [@ EXCEPT !.x = (W - cfg.PADDLE_OFFSET - cfg.PADDLE_WIDTH) * Q,
                          !.y = MulDiv(g.bot_paddle.y, H, g.screen.h),
                          !.width = cfg.PADDLE_WIDTH * Q,
                          !.height = cfg.PADDLE_HEIGHT * Q,
                          !.speed = bot_speed],
            !.ball =
                [@ EXCEPT !.x = MulDiv(g.ball.x, W, g.screen.w),
                          !.y = MulDiv(g.ball.y, H, g.screen.h),
                          !.radius = cfg.BALL_RADIUS * Q,
                          !.initial_x = (W \div 2) * Q,
                          !.initial_y = (H \div 2) * Q,
                          !.base_speed = ball_speed,
                          !.velocity_x = MulDiv(g.ball.velocity_x, ball_speed, settings.ball_speed),
                          !.velocity_y = MulDiv(g.ball.velocity_y, ball_speed, settings.ball_speed)]]

\* An input event is a record with the fields pygame gives its type:
\* [w, h, type |-> "VIDEORESIZE"], [type |-> "MOUSEBUTTONDOWN"],
\* [type |-> "KEYDOWN", key], [type |-> "KEYUP", key], [type |-> "MOUSEMOTION"].
\* QUIT ends run's loop after the update and render of its iteration: the
\* last step of a run is a Tick.
K_UP_KEYS == {"K_w", "K_UP"}
K_DOWN_KEYS == {"K_s", "K_DOWN"}
K_ESCAPE == "K_ESCAPE"

\* handle_resize with the held keys forgotten.
handle_resize_releasing_keys(g, event) ==
    IF event.type = "VIDEORESIZE"
    THEN LET g1 == [g EXCEPT !.screen = [w |-> event.w, h |-> event.h],
                             !.config = update_screen_size(event.w, event.h),
                             !.keys_pressed = {}]
         IN  IF g1.state = PLAYING /\ g1.player_paddle # None
             THEN resize_game_objects(g1)
             ELSE g1
    ELSE g

\* handle_input, the window-resize part (for every event, in every state).
handle_resize(g, event) ==
    IF event.type = "VIDEORESIZE"
    THEN LET g1 == [g EXCEPT !.screen = [w |-> event.w, h |-> event.h],
                             !.config = update_screen_size(event.w, event.h)]
         IN  IF g1.state = PLAYING /\ g1.player_paddle # None
             THEN resize_game_objects(g1)
             ELSE g1
    ELSE g

\* handle_menu starting a match on EASY with a click off the buttons.
handle_menu_any_click(g, event, mouse_pos, rnd) ==
    IF event.type = "MOUSEBUTTONDOWN"
    THEN [initialize_game_objects(g, EASY, rnd) EXCEPT !.state = PLAYING]
    ELSE g

\* handle_input in state MENU.  mouse_pos is pygame.mouse.get_pos().
handle_menu(g, event, mouse_pos, rnd) ==
    IF event.type = "MOUSEBUTTONDOWN"
    THEN LET hits == {i \in DOMAIN g.menu_buttons :
                         collidepoint(g.menu_buttons[i].rect, mouse_pos)}
         IN  IF hits = {} THEN g
             ELSE LET first == CHOOSE i \in hits : \A j \in hits : i <= j
                  IN  [initialize_game_objects(g, g.menu_buttons[first].difficulty, rnd)
                          EXCEPT !.state = PLAYING]
    ELSE g

\* handle_paused with a resume that restarts the point: the wait is dropped
\* and the bot's countdown cleared.
handle_paused_restarting(g, event, mouse_pos) ==
    LET resumed == [g EXCEPT !.state = PLAYING,
                             !.waiting_for_reset = FALSE,
                             !.bot_controller = BotController(g.current_difficulty)]
    IN  IF event.type = "MOUSEBUTTONDOWN"
        THEN IF /\ "resume" \in DOMAIN g.pause_buttons
                /\ collidepoint(g.pause_buttons["resume"], mouse_pos)
             THEN resumed
             ELSE IF /\ "new_game" \in DOMAIN g.pause_buttons
                     /\ collidepoint(g.pause_buttons["new_game"], mouse_pos)
             THEN [g EXCEPT !.state = MENU]
             ELSE g
        ELSE IF event.type = "KEYDOWN"
        THEN IF event.key = K_ESCAPE THEN resumed ELSE g
        ELSE g

\* handle_input in state PAUSED.
handle_paused(g, event, mouse_pos) ==
    IF event.type = "MOUSEBUTTONDOWN"
    THEN IF /\ "resume" \in DOMAIN g.pause_buttons
            /\ collidepoint(g.pause_buttons["resume"], mouse_pos)
         THEN [g EXCEPT !.state = PLAYING]
         ELSE IF /\ "new_game" \in DOMAIN g.pause_buttons
                 /\ collidepoint(g.pause_buttons["new_game"], mouse_pos)
         THEN [g EXCEPT !.state = MENU]
         ELSE g
    ELSE IF event.type = "KEYDOWN"
    THEN IF event.key = K_ESCAPE THEN [g EXCEPT !.state = PLAYING] ELSE g
    ELSE g

\* handle_game_over with a play-again click that goes straight to PLAYING.
handle_game_over_replaying(g, event, mouse_pos) ==
    IF event.type = "MOUSEBUTTONDOWN"
    THEN IF /\ g.play_again_button # None
            /\ collidepoint(g.play_again_button, mouse_pos)
         THEN [g EXCEPT !.state = PLAYING]
         ELSE g
    ELSE g

\* handle_input in state GAME_OVER.
handle_game_over(g, event, mouse_pos) ==
    IF event.type = "MOUSEBUTTONDOWN"
    THEN IF /\ g.play_again_button # None
            /\ collidepoint(g.play_again_button, mouse_pos)
         THEN [g EXCEPT !.state = MENU]
         ELSE g
    ELSE g

\* handle_playing with a click that pauses.
handle_playing_click_pauses(g, event) ==
    IF event.type = "MOUSEBUTTONDOWN" THEN [g EXCEPT !.state = PAUSED]
    ELSE IF event.type = "KEYDOWN"
    THEN IF event.key \in K_UP_KEYS
         THEN [g EXCEPT !.keys_pressed = @ \cup {"up"}]
         ELSE IF event.key \in K_DOWN_KEYS
         THEN [g EXCEPT !.keys_pressed = @ \cup {"down"}]
         ELSE IF event.key = K_ESCAPE
         THEN [g EXCEPT !.state = PAUSED]
         ELSE g
    ELSE IF event.type = "KEYUP"
    THEN IF event.key \in K_UP_KEYS
         THEN [g EXCEPT !.keys_pressed = @ \ {"up"}]
         ELSE IF event.key \in K_DOWN_KEYS
         THEN [g EXCEPT !.keys_pressed = @ \ {"down"}]
         ELSE g
    ELSE g

\* handle_input in state PLAYING.
handle_playing(g, event) ==
    IF event.type = "KEYDOWN"
    THEN IF event.key \in K_UP_KEYS
         THEN [g EXCEPT !.keys_pressed = @ \cup {"up"}]
         ELSE IF event.key \in K_DOWN_KEYS
         THEN [g EXCEPT !.keys_pressed = @ \cup {"down"}]
         ELSE IF event.key = K_ESCAPE
         THEN [g EXCEPT !.state = PAUSED]
         ELSE g
    ELSE IF event.type = "KEYUP"
    THEN IF event.key \in K_UP_KEYS
         THEN [g EXCEPT !.keys_pressed = @ \ {"up"}]
         ELSE IF event.key \in K_DOWN_KEYS
         THEN [g EXCEPT !.keys_pressed = @ \ {"down"}]
         ELSE g
    ELSE g

\* The body of handle_input's loop for one event other than QUIT.
handle_event(g, event, mouse_pos, rnd) ==
    LET g1 == handle_resize(g, event)
    IN  IF g1.state = MENU THEN handle_menu(g1, event, mouse_pos, rnd)
        ELSE IF g1.state = PAUSED THEN handle_paused(g1, event, mouse_pos)
        ELSE IF g1.state = GAME_OVER THEN handle_game_over(g1, event, mouse_pos)
        ELSE IF g1.state = PLAYING THEN handle_playing(g1, event)
        ELSE g1

\* update_waiting with the ball sent to the side that scored.
update_waiting_toward_scorer(g, current_time) ==
    IF current_time - g.reset_timer >= RESET_DELAY_MS
    THEN LET direction == IF g.last_scorer = "bot" THEN 1 ELSE -1
             target_y == IF g.last_scorer = "bot"
                         THEN g.player_paddle.y + g.player_paddle.height \div 2
                         ELSE g.bot_paddle.y + g.bot_paddle.height \div 2
         IN  [g EXCEPT !.ball = reset_position(g.ball, direction, Some(target_y),
                                               [choice1 |-> 1, choice2 |-> 1, uniform |-> 1000]),
                       !.waiting_for_reset = FALSE]
    ELSE g

\* update_waiting serving the ball and leaving the wait flag set.
update_waiting_keeping_flag(g, current_time) ==
    IF current_time - g.reset_timer >= RESET_DELAY_MS
    THEN LET direction == IF g.last_scorer = "bot" THEN -1 ELSE 1
             target_y == IF g.last_scorer = "bot"
                         THEN g.player_paddle.y + g.player_paddle.height \div 2
                         ELSE g.bot_paddle.y + g.bot_paddle.height \div 2
         IN  [g EXCEPT !.ball = reset_position(g.ball, direction, Some(target_y),
                                               [choice1 |-> 1, choice2 |-> 1, uniform |-> 1000])]
    ELSE g

\* update_waiting ending the wait after half the delay.
update_waiting_half_delay(g, current_time) ==
    IF current_time - g.reset_timer >= RESET_DELAY_MS \div 2
    THEN LET direction == IF g.last_scorer = "bot" THEN -1 ELSE 1
             target_y == IF g.last_scorer = "bot"
                         THEN g.player_paddle.y + g.player_paddle.height \div 2
                         ELSE g.bot_paddle.y + g.bot_paddle.height \div 2
         IN  [g EXCEPT !.ball = reset_position(g.ball, direction, Some(target_y),
                                               [choice1 |-> 1, choice2 |-> 1, uniform |-> 1000]),
                       !.waiting_for_reset = FALSE]
    ELSE g

\* update, the branch taken while waiting for the reset after a point.
update_waiting(g, current_time) ==
    IF current_time - g.reset_timer >= RESET_DELAY_MS
    THEN LET direction == IF g.last_scorer = "bot" THEN -1 ELSE 1
             target_y == IF g.last_scorer = "bot"
                         THEN g.player_paddle.y + g.player_paddle.height \div 2
                         ELSE g.bot_paddle.y + g.bot_paddle.height \div 2
         IN  [g EXCEPT !.ball = reset_position(g.ball, direction, Some(target_y),
                                               [choice1 |-> 1, choice2 |-> 1, uniform |-> 1000]),
                       !.waiting_for_reset = FALSE]
    ELSE g

\* update's movement with the paddles bouncing the ball whichever way it
\* moves.
update_movement_unguarded(g, rnd) ==
    LET cfg == g.config
        direction == IF "up" \in g.keys_pressed THEN -1
                     ELSE IF "down" \in g.keys_pressed THEN 1
                     ELSE 0
        player == Paddle_move(g.player_paddle, direction, cfg.SCREEN_HEIGHT)
        bot == BotController_update(g.bot_controller, g.bot_paddle, g.ball,
                                    cfg.SCREEN_HEIGHT, rnd)
        b1 == Ball_move(g.ball, cfg.SCREEN_WIDTH, cfg.SCREEN_HEIGHT)
        b2 == IF check_paddle_collision(b1, player)
              THEN bounce_off_paddle(b1, player) ELSE b1
        b3 == IF check_paddle_collision(b2, bot.paddle)
              THEN bounce_off_paddle(b2, bot.paddle) ELSE b2
    IN  [g EXCEPT !.player_paddle = player,
                  !.bot_paddle = bot.paddle,
                  !.bot_controller = bot.bot_controller,
                  !.ball = b3]

\* update, the movement of the paddles and the ball and the paddle bounces.
update_movement(g, rnd) ==
    LET cfg == g.config
        direction == IF "up" \in g.keys_pressed THEN -1
                     ELSE IF "down" \in g.keys_pressed THEN 1
                     ELSE 0
        player == Paddle_move(g.player_paddle, direction, cfg.SCREEN_HEIGHT)
        bot == BotController_update(g.bot_controller, g.bot_paddle, g.ball,
                                    cfg.SCREEN_HEIGHT, rnd)
        b1 == Ball_move(g.ball, cfg.SCREEN_WIDTH, cfg.SCREEN_HEIGHT)
        b2 == IF check_paddle_collision(b1, player) /\ b1.velocity_x < 0
              THEN bounce_off_paddle(b1, player) ELSE b1
        b3 == IF check_paddle_collision(b2, bot.paddle) /\ b2.velocity_x > 0
              THEN bounce_off_paddle(b2, bot.paddle) ELSE b2
    IN  [g EXCEPT !.player_paddle = player,
                  !.bot_paddle = bot.paddle,
                  !.bot_controller = bot.bot_controller,
                  !.ball = b3]

\* The ball put back at the centre of the screen, at rest.
BallAtCentre(b, cfg) ==
    [b EXCEPT !.x = (cfg.SCREEN_WIDTH \div 2) * Q,
              !.y = (cfg.SCREEN_HEIGHT \div 2) * Q,
              !.velocity_x = 0,
              !.velocity_y = 0]

\* update_scoring with the ball put back at the centre still moving.
update_scoring_ball_moving(g, current_time) ==
    IF g.ball.x - g.ball.radius < 0
    THEN [g EXCEPT !.score_manager = increment_bot_score(@),
                   !.last_scorer = "bot",
                   !.ball = [BallAtCentre(@, g.config) EXCEPT
                                !.velocity_x = g.ball.velocity_x],
                   !.waiting_for_reset = TRUE,
                   !.reset_timer = current_time]
    ELSE IF g.ball.x + g.ball.radius > g.config.SCREEN_WIDTH * Q
    THEN [g EXCEPT !.score_manager = increment_player_score(@),
                   !.last_scorer = "player",
                   !.ball = [BallAtCentre(@, g.config) EXCEPT
                                !.velocity_x = g.ball.velocity_x],
                   !.waiting_for_reset = TRUE,
                   !.reset_timer = current_time]
    ELSE g

\* update, the scoring.
update_scoring(g, current_time) ==
    IF g.ball.x - g.ball.radius < 0
    THEN [g EXCEPT !.score_manager = increment_bot_score(@),
                   !.last_scorer = "bot",
                   !.ball = BallAtCentre(@, g.config),
                   !.waiting_for_reset = TRUE,
                   !.reset_timer = current_time]
    ELSE IF g.ball.x + g.ball.radius > g.config.SCREEN_WIDTH * Q
    THEN [g EXCEPT !.score_manager = increment_player_score(@),
                   !.last_scorer = "player",
                   !.ball = BallAtCentre(@, g.config),
                   !.waiting_for_reset = TRUE,
                   !.reset_timer = current_time]
    ELSE g

\* update, the check for a winner.
update_winner(g) ==
    LET w == check_winner(g.score_manager)
    IN  IF w # NoneStr THEN [g EXCEPT !.winner = w, !.state = GAME_OVER] ELSE g

\* update running the simulation in PAUSED as well.
update_while_paused(g, current_time, rnd) ==
    IF g.state \notin {PLAYING, PAUSED} THEN g
    ELSE IF g.waiting_for_reset THEN update_waiting(g, current_time)
    ELSE update_winner(update_scoring(update_movement(g, rnd), current_time))

\* update beginning the wait anew in every frame run while PAUSED.
update_restarting_wait(g, current_time, rnd) ==
    IF g.state = PAUSED /\ g.waiting_for_reset
    THEN [g EXCEPT !.reset_timer = current_time]
    ELSE IF g.state # PLAYING THEN g
    ELSE IF g.waiting_for_reset THEN update_waiting(g, current_time)
    ELSE update_winner(update_scoring(update_movement(g, rnd), current_time))

\* PongGame.update.  current_time is pygame.time.get_ticks().
update(g, current_time, rnd) ==
    IF g.state # PLAYING THEN g
    ELSE IF g.waiting_for_reset THEN update_waiting(g, current_time)
    ELSE update_winner(update_scoring(update_movement(g, rnd), current_time))

\* PongGame.render: what it stores in the game object.
render(g) ==
    IF g.state = MENU THEN [g EXCEPT !.menu_buttons = draw_menu(g.config)]
    ELSE IF g.state = PAUSED THEN [g EXCEPT !.pause_buttons = draw_pause_menu(g.config)]
    ELSE IF g.state = GAME_OVER
    THEN [g EXCEPT !.play_again_button = draw_game_over(g.config)]
    ELSE g

\* ------------------------------------------------------ matches played ahead

\* A run of the program up to some frame: the PongGame object and the clock.
\* Frame is one iteration of run's loop with an empty event queue, Event the
\* handling of one event.
Started == [game |-> PongGame, now |-> 0]

Frame(s, dt, rnd) ==
    [game |-> render(update(s.game, s.now, rnd)), now |-> s.now + dt]

Event(s, event, mouse_pos, rnd) ==
    [s EXCEPT !.game = handle_event(s.game, event, mouse_pos, rnd)]

\* The frames of one point, at most.
MaxPointFrames == 80

Points(s) == s.game.score_manager.player_score + s.game.score_manager.bot_score

\* The next frame takes the ball past the left edge.
BallLeaving(g) ==
    /\ g.state = PLAYING
    /\ ~g.waiting_for_reset
    /\ g.ball.x + g.ball.velocity_x - g.ball.radius < 0

\* Frames with an empty event queue until `total` points have been scored.
RECURSIVE PlayTo(_, _, _, _, _)
PlayTo(s, total, fuel, dt, rnd) ==
    IF fuel = 0 \/ Points(s) >= total \/ s.game.state # PLAYING THEN s
    ELSE PlayTo(Frame(s, dt, rnd), total, fuel - 1, dt, rnd)

\* Frames with an empty event queue until the ball is about to leave.
RECURSIVE PlayToLeaving(_, _, _, _)
PlayToLeaving(s, fuel, dt, rnd) ==
    IF fuel = 0 \/ BallLeaving(s.game) \/ s.game.state # PLAYING THEN s
    ELSE PlayToLeaving(Frame(s, dt, rnd), fuel - 1, dt, rnd)

\* The next n points of a match, one after the other.
RECURSIVE PlayPoints(_, _, _, _)
PlayPoints(s, n, dt, rnd) ==
    IF n = 0 \/ s.game.state # PLAYING THEN s
    ELSE PlayPoints(PlayTo(s, Points(s) + 1, MaxPointFrames, dt, rnd), n - 1, dt, rnd)

\* The draws of the frames played ahead: the first serve goes up and to the
\* left, the bot aims true and waits its longest.
AheadDraws ==
    [choice1 |-> -1, choice2 |-> -1, uniform |-> 1000,
     random |-> 0, error |-> 1000, randint |-> 1000]

\* A match on HARD in which the player holds the down key and the bot has
\* scored all the points but the last, the ball on its way out for the last.
BotAboutToWin ==
    LET dt == RESET_DELAY_MS \div 2
        menu == Frame(Started, dt, AheadDraws)
        hard == CHOOSE i \in DOMAIN menu.game.menu_buttons :
                    menu.game.menu_buttons[i].difficulty = HARD
        pos == <<menu.game.menu_buttons[hard].rect.x, menu.game.menu_buttons[hard].rect.y>>
        serve == Event(menu, [type |-> "MOUSEBUTTONDOWN"], pos, AheadDraws)
        down == Event(serve, [type |-> "KEYDOWN", key |-> "K_s"], <<0, 0>>, AheadDraws)
        last == PlayPoints(down, WINNING_SCORE - 1, dt, AheadDraws)
    IN  PlayToLeaving(last, MaxPointFrames, dt, AheadDraws)

\* The window shrunk below the minimum size.
Shrink(s) ==
    Event(s, [w |-> MIN_WIDTH - 200, h |-> MIN_HEIGHT - 100, type |-> "VIDEORESIZE"],
          <<0, 0>>, AheadDraws)

\* n points for the player: the ball is served to the right, the window is
\* shrunk twice, which puts the ball past the right edge, the next frame
\* scores, and the frames of the wait serve the ball again.
ShrinkPoint(s, dt, rnd) ==
    LET scored == Frame(Shrink(Shrink(s)), dt, rnd)
    IN  Frame(Frame(scored, dt, rnd), dt, rnd)

RECURSIVE ShrinkPoints(_, _, _, _)
ShrinkPoints(s, n, dt, rnd) ==
    IF n = 0 \/ s.game.state # PLAYING THEN s
    ELSE ShrinkPoints(ShrinkPoint(s, dt, rnd), n - 1, dt, rnd)

\* A match on EASY in which the player has scored all the points but the
\* last, the ball past the right edge for the last.
PlayerAboutToWin ==
    LET dt == RESET_DELAY_MS \div 2
        right == [AheadDraws EXCEPT !.choice1 = 1]
        menu == Frame(Started, dt, right)
        easy == CHOOSE i \in DOMAIN menu.game.menu_buttons :
                    menu.game.menu_buttons[i].difficulty = EASY
        pos == <<menu.game.menu_buttons[easy].rect.x, menu.game.menu_buttons[easy].rect.y>>
        serve == Event(menu, [type |-> "MOUSEBUTTONDOWN"], pos, right)
        last == ShrinkPoints(serve, WINNING_SCORE - 1, dt, right)
    IN  Shrink(Shrink(last))

\* A match begun on `difficulty` by a click in the menu of the first frame.
Serve(difficulty, rnd) ==
    LET menu == Frame(Started, RESET_DELAY_MS \div 2, rnd)
        i == CHOOSE k \in DOMAIN menu.game.menu_buttons :
                 menu.game.menu_buttons[k].difficulty = difficulty
        pos == <<menu.game.menu_buttons[i].rect.x, menu.game.menu_buttons[i].rect.y>>
    IN  Event(menu, [type |-> "MOUSEBUTTONDOWN"], pos, rnd)

\* n frames with an empty event queue.
RECURSIVE Frames(_, _, _, _)
Frames(s, n, dt, rnd) ==
    IF n = 0 \/ s.game.state # PLAYING THEN s
    ELSE Frames(Frame(s, dt, rnd), n - 1, dt, rnd)

\* The first point of a match on HARD, the ball on its way out past a player
\* who holds the down key.
BotAboutToScore ==
    PlayToLeaving(Event(Serve(HARD, AheadDraws), [type |-> "KEYDOWN", key |-> "K_s"],
                        <<0, 0>>, AheadDraws),
                  MaxPointFrames, RESET_DELAY_MS \div 2, AheadDraws)

\* The wait after the first point of a match, one frame into the wait.
\* On HARD the bot scores past a player who holds the down key (the player's
\* paddle at the bottom) or touches no key (the paddle centred); on EASY the
\* player scores after the window is shrunk twice.
WaitAfterBotScored ==
    PlayPoints(Event(Serve(HARD, AheadDraws), [type |-> "KEYDOWN", key |-> "K_s"],
                     <<0, 0>>, AheadDraws),
               1, RESET_DELAY_MS \div 2, AheadDraws)

WaitAfterBotScoredIdle ==
    PlayPoints(Serve(HARD, AheadDraws), 1, RESET_DELAY_MS \div 2, AheadDraws)

WaitAfterPlayerScored ==
    Frame(Shrink(Shrink(Serve(EASY, [AheadDraws EXCEPT !.choice1 = 1]))),
          RESET_DELAY_MS \div 2, AheadDraws)

\* A rally on HARD 33 frames after the serve, the ball two frames from the
\* top wall (served upward) or from the bottom wall (served downward).
NearTopWall ==
    Frames(Serve(HARD, AheadDraws), 33, RESET_DELAY_MS \div 2, AheadDraws)

NearBottomWall ==
    Frames(Serve(HARD, [AheadDraws EXCEPT !.choice2 = 1]), 33,
           RESET_DELAY_MS \div 2, AheadDraws)

\* A rally on HARD 40 frames after the serve, the ball two frames from a
\* paddle.  Served to the left, the player has held the up key for the first
\* 26 frames, which leaves the top of the paddle just above the ball's path;
\* served to the right, the bot follows the ball.
NearPlayerPaddle ==
    LET dt == RESET_DELAY_MS \div 2
        up == Event(Serve(HARD, AheadDraws), [type |-> "KEYDOWN", key |-> "K_UP"],
                    <<0, 0>>, AheadDraws)
        released == Event(Frames(up, 26, dt, AheadDraws),
                          [type |-> "KEYUP", key |-> "K_UP"], <<0, 0>>, AheadDraws)
    IN  Frames(released, 14, dt, AheadDraws)

NearBotPaddle ==
    Frames(Serve(HARD, [AheadDraws EXCEPT !.choice1 = 1]), 40,
           RESET_DELAY_MS \div 2, [AheadDraws EXCEPT !.choice1 = 1])

\* ------------------------------------------------------------- the program

\* The fields of the PongGame object.
VARIABLES config, screen, state, score_manager, player_paddle, bot_paddle,
          ball, bot_controller, keys_pressed, current_difficulty,
          menu_buttons, pause_buttons, play_again_button, winner,
          reset_timer, waiting_for_reset, last_scorer

\* now: the clock pygame.time.get_ticks(), in ms.  mouse_pos: the position
\* pygame.mouse.get_pos() gives, the position of the pointer when the events
\* of the current iteration were taken from the queue: the position every
\* click of the iteration is handled with.
VARIABLES now, mouse_pos

\* last_event: the event handled or the frame run by the last step.
\* iter_state: the session state at the start of the current iteration of
\* run's loop.  steps: the events handled and frames run so far.
VARIABLES last_event, iter_state, steps

\* keys_held: the movement keys the user holds down, by the KEYDOWN and KEYUP
\* events pygame has delivered.
VARIABLES keys_held

gameVars == <<config, screen, state, score_manager, player_paddle, bot_paddle,
              ball, bot_controller, keys_pressed, current_difficulty,
              menu_buttons, pause_buttons, play_again_button, winner,
              reset_timer, waiting_for_reset, last_scorer>>

vars == <<gameVars, now, mouse_pos, last_event, iter_state, steps, keys_held>>

\* The PongGame object in the current state.
Game ==
    [ball |-> ball, bot_controller |-> bot_controller,
     config |-> config, screen |-> screen, state |-> state,
     score_manager |-> score_manager, player_paddle |-> player_paddle,
     bot_paddle |-> bot_paddle,
     keys_pressed |-> keys_pressed, current_difficulty |-> current_difficulty,
     menu_buttons |-> menu_buttons, pause_buttons |-> pause_buttons,
     play_again_button |-> play_again_button, winner |-> winner,
     reset_timer |-> reset_timer, waiting_for_reset |-> waiting_for_reset,
     last_scorer |-> last_scorer]

\* The PongGame object is g in the next state.
Becomes(g) ==
    /\ config' = g.config
    /\ screen' = g.screen
    /\ state' = g.state
    /\ score_manager' = g.score_manager
    /\ player_paddle' = g.player_paddle
    /\ bot_paddle' = g.bot_paddle
    /\ ball' = g.ball
    /\ bot_controller' = g.bot_controller
    /\ keys_pressed' = g.keys_pressed
    /\ current_difficulty' = g.current_difficulty
    /\ menu_buttons' = g.menu_buttons
    /\ pause_buttons' = g.pause_buttons
    /\ play_again_button' = g.play_again_button
    /\ winner' = g.winner
    /\ reset_timer' = g.reset_timer
    /\ waiting_for_reset' = g.waiting_for_reset
    /\ last_scorer' = g.last_scorer

\* ---------------------------------------------------------------- the bounds

\* The steps of a run: the events handled and the frames run.
MaxSteps == 6

\* The time a frame takes, in ms: clock.tick(FPS) makes it 1000 / FPS at least.
\* The frames of the model take half the reset delay, so that the wait after
\* a point has a frame before its end and a frame exactly at its end.
FrameTimes == {RESET_DELAY_MS \div 2}

\* The window sizes of the resize events: twice the initial size, and a size
\* below the minimum.
ResizeSizes == {<<2 * SCREEN_WIDTH, 2 * SCREEN_HEIGHT>>, <<MIN_WIDTH - 200, MIN_HEIGHT - 100>>}

Keys == {"K_UP", "K_s", K_ESCAPE}

\* The keys that move the paddle, and the direction handle_input files each
\* under.
MoveKeys == Keys \ {K_ESCAPE}

KeyDirection(key) == IF key \in K_UP_KEYS THEN "up" ELSE "down"

\* A position of the pointer on no button.
Away == <<10, 10>>

\* Positions of the pointer: on the difficulty buttons, on the pause buttons,
\* on the play-again button (some of them on two at once), and on none.
MousePoints == {<<350, 250>>, <<350, 300>>, <<350, 340>>, <<350, 380>>, Away}

\* The draws of the random source at the start of a match.
LaunchDraws ==
    [choice1 : {-1, 1}, choice2 : {-1, 1}, uniform : {1000},
     random : {0}, error : {1000}, randint : {0}]

\* The draws of the random source in a frame: the bot aims true and then
\* waits its longest, or misses its aim by the full error and does not wait.
FrameDraws ==
    {[choice1 |-> 1, choice2 |-> 1, uniform |-> 1000,
      random |-> 0, error |-> 1000, randint |-> 1000],
     [choice1 |-> 1, choice2 |-> 1, uniform |-> 1000,
      random |-> 99, error |-> 1000, randint |-> 0]}

\* --------------------------------------------------------------- the actions

\* The program is at the run s, which e (an event or a frame) has ended.
InitAt(s, e) ==
    /\ config = s.game.config
    /\ screen = s.game.screen
    /\ state = s.game.state
    /\ score_manager = s.game.score_manager
    /\ player_paddle = s.game.player_paddle
    /\ bot_paddle = s.game.bot_paddle
    /\ ball = s.game.ball
    /\ bot_controller = s.game.bot_controller
    /\ keys_pressed = s.game.keys_pressed
    /\ current_difficulty = s.game.current_difficulty
    /\ menu_buttons = s.game.menu_buttons
    /\ pause_buttons = s.game.pause_buttons
    /\ play_again_button = s.game.play_again_button
    /\ winner = s.game.winner
    /\ reset_timer = s.game.reset_timer
    /\ waiting_for_reset = s.game.waiting_for_reset
    /\ last_scorer = s.game.last_scorer
    /\ now = s.now
    /\ mouse_pos = Away
    /\ last_event = e
    /\ iter_state = s.game.state
    /\ steps = 0
    /\ keys_held = {key \in MoveKeys : KeyDirection(key) \in s.game.keys_pressed}

\* The program after the construction of the PongGame object.
Init == InitAt(Started, [type |-> "INIT"])

\* The program late in a match: one frame before the bot wins, or one frame
\* before the player wins.
InitMatch ==
    \/ InitAt(BotAboutToWin, [type |-> "TICK"])
    \/ InitAt(PlayerAboutToWin,
              [w |-> MIN_WIDTH - 200, h |-> MIN_HEIGHT - 100, type |-> "VIDEORESIZE"])

\* handle_input handles one event of the queue: the event leaves the clock,
\* the pointer and the iteration alone.
Handle(event, rnd) ==
    /\ steps < MaxSteps
    /\ steps' = steps + 1
    /\ Becomes(handle_event(Game, event, mouse_pos, rnd))
    /\ last_event' = event
    /\ keys_held' = IF event.type = "KEYDOWN" /\ event.key \in MoveKeys
                     THEN keys_held \cup {event.key}
                     ELSE IF event.type = "KEYUP" /\ event.key \in MoveKeys
                     THEN keys_held \ {event.key}
                     ELSE keys_held
    /\ UNCHANGED <<now, mouse_pos, iter_state>>

VideoResize ==
    \E size \in ResizeSizes :
        Handle([w |-> size[1], h |-> size[2], type |-> "VIDEORESIZE"],
               CHOOSE r \in LaunchDraws : TRUE)

MouseButtonDown ==
    \E rnd \in LaunchDraws :
        Handle([type |-> "MOUSEBUTTONDOWN"], rnd)

KeyDown ==
    \E key \in Keys \ keys_held :
        Handle([type |-> "KEYDOWN", key |-> key],
               CHOOSE r \in LaunchDraws : TRUE)

KeyUp ==
    \E key \in keys_held \cup {K_ESCAPE} :
        Handle([type |-> "KEYUP", key |-> key],
               CHOOSE r \in LaunchDraws : TRUE)

MouseMotion ==
    Handle([type |-> "MOUSEMOTION"], CHOOSE r \in LaunchDraws : TRUE)

\* The rest of an iteration of run's loop once the event queue is empty:
\* update, render, and clock.tick, which ends the frame dt ms later.  The
\* next iteration takes its events with the pointer at pos.
Tick ==
    \E dt \in FrameTimes, rnd \in FrameDraws, pos \in MousePoints :
        /\ steps < MaxSteps
        /\ steps' = steps + 1
        /\ Becomes(render(update(Game, now, rnd)))
        /\ now' = now + dt
        /\ mouse_pos' = pos
        /\ last_event' = [type |-> "TICK"]
        /\ iter_state' = state'
        /\ UNCHANGED keys_held

Next ==
    \/ VideoResize
    \/ MouseButtonDown
    \/ KeyDown
    \/ KeyUp
    \/ MouseMotion
    \/ Tick

Spec == Init /\ [][Next]_vars

\* The same program, begun late in a match.
SpecMatch == InitMatch /\ [][Next]_vars

\* The program around a point: one frame before the first point, or in the
\* wait after it.
InitPoint ==
    \/ InitAt(BotAboutToScore, [type |-> "TICK"])
    \/ InitAt(WaitAfterBotScored, [type |-> "TICK"])
    \/ InitAt(WaitAfterBotScoredIdle, [type |-> "TICK"])
    \/ InitAt(WaitAfterPlayerScored, [type |-> "TICK"])

\* The same program, begun around the first point of a match.
SpecPoint == InitPoint /\ [][Next]_vars

\* The y of the centre of a paddle.
PaddleCentre(p) == p.y + p.height \div 2

\* The program in a rally: the ball two frames from the player's paddle, or
\* from the bot's.
InitRally ==
    \/ InitAt(NearPlayerPaddle, [type |-> "TICK"])
    \/ InitAt(NearBotPaddle, [type |-> "TICK"])

\* The same program, begun in a rally.
SpecRally == InitRally /\ [][Next]_vars

\* A frame that leaves the pointer on no button.
TickPointerAway == Tick /\ mouse_pos' = Away

\* The events of a rally played with the keyboard: keys, resizes of the
\* window, and frames.
NextBounce ==
    \/ VideoResize
    \/ KeyDown
    \/ KeyUp
    \/ TickPointerAway

\* The same program, begun in a rally and played with the keyboard.
SpecBounce == InitRally /\ [][NextBounce]_vars

\* The match the bot has just won with its tenth point: GAME_OVER, the wait
\* flag of the last point still set.
MatchWon == Frame(BotAboutToWin, RESET_DELAY_MS \div 2, AheadDraws)

\* A click while no match is being played.
ClickOutsidePlay == state # PLAYING /\ MouseButtonDown

\* The program left to run: in PLAYING it runs frame after frame, and
\* outside PLAYING the user clicks on the buttons.
InitWait ==
    \/ InitPoint
    \/ InitAt(MatchWon, [type |-> "TICK"])

NextWait ==
    \/ Tick
    \/ ClickOutsidePlay

\* The end of a frame as the clock sees it: the step of Tick on steps and
\* now, the only step that advances the clock.
FrameEnds ==
    /\ steps < MaxSteps
    /\ steps' = steps + 1
    /\ now' \in {now + dt : dt \in FrameTimes}

\* run's loop runs update, render and clock.tick in every iteration until
\* QUIT: a frame that can be run is run.
SpecWait == InitWait /\ [][NextWait]_vars /\ WF_<<steps, now>>(FrameEnds)

\* ------------------------------------------- the objects, called directly

\* The calls made on the objects of a match.
MaxCalls == 6

\* The arguments of Ball.reset_position.
Directions == {-1, 0, 1}

TargetYs ==
    {None, Some(PaddleCentre(player_paddle)), Some(PaddleCentre(bot_paddle))}

\* The draws of the random source in a call of reset_position.
ResetDraws ==
    [choice1 : {-1, 1}, choice2 : {-1, 1}, uniform : {750},
     random : {0}, error : {1000}, randint : {0}]

\* The draws of the random source in a call of BotController.update: the bot
\* aims true or misses, and then waits not at all, half its longest, or its
\* longest.
BotDraws ==
    [choice1 : {1}, choice2 : {1}, uniform : {1000},
     random : {0, 99}, error : {1000}, randint : {0, 500, 1000}]

\* The objects of a match: at the serve on MEDIUM, in a rally on HARD near
\* the top and the bottom wall, and on EASY at rest after a point in a
\* shrunk window.
InitObjects ==
    \/ InitAt(Serve(MEDIUM, AheadDraws), [type |-> "MOUSEBUTTONDOWN"])
    \/ InitAt(NearTopWall, [type |-> "TICK"])
    \/ InitAt(NearBottomWall, [type |-> "TICK"])
    \/ InitAt(WaitAfterPlayerScored, [type |-> "TICK"])

\* ball.reset_position(direction, target_y)
CallResetPosition ==
    \E direction \in Directions, target_y \in TargetYs, rnd \in ResetDraws :
        /\ steps < MaxCalls
        /\ steps' = steps + 1
        /\ ball' = reset_position(ball, direction, target_y, rnd)
        /\ last_event' = [direction |-> direction, type |-> "reset_position"]
        /\ UNCHANGED <<config, screen, state, score_manager, player_paddle,
                       bot_paddle, bot_controller, keys_pressed,
                       current_difficulty, menu_buttons, pause_buttons,
                       play_again_button, winner, reset_timer,
                       waiting_for_reset, last_scorer, now, mouse_pos, iter_state, keys_held>>

\* ball.move(SCREEN_WIDTH, SCREEN_HEIGHT)
CallBallMove ==
    /\ steps < MaxCalls
    /\ steps' = steps + 1
    /\ ball' = Ball_move(ball, config.SCREEN_WIDTH, config.SCREEN_HEIGHT)
    /\ last_event' = [type |-> "move"]
    /\ UNCHANGED <<config, screen, state, score_manager, player_paddle,
                   bot_paddle, bot_controller, keys_pressed,
                   current_difficulty, menu_buttons, pause_buttons,
                   play_again_button, winner, reset_timer,
                   waiting_for_reset, last_scorer, now, mouse_pos, iter_state, keys_held>>

\* bot_controller.update(bot_paddle, ball, SCREEN_HEIGHT)
CallBotUpdate ==
    \E rnd \in BotDraws :
        LET bot == BotController_update(bot_controller, bot_paddle, ball,
                                        config.SCREEN_HEIGHT, rnd)
        IN  /\ steps < MaxCalls
            /\ steps' = steps + 1
            /\ bot_paddle' = bot.paddle
            /\ bot_controller' = bot.bot_controller
            /\ last_event' = [type |-> "update"]
            /\ UNCHANGED <<config, screen, state, score_manager, player_paddle,
                           ball, keys_pressed,
                           current_difficulty, menu_buttons, pause_buttons,
                           play_again_button, winner, reset_timer,
                           waiting_for_reset, last_scorer, now, mouse_pos, iter_state, keys_held>>

NextObjects ==
    \/ CallResetPosition
    \/ CallBallMove
    \/ CallBotUpdate

\* The objects of a match under any sequence of calls.
SpecObjects == InitObjects /\ [][NextObjects]_vars

\* ------------------------------------- the score manager, called directly

\* The scores of the score managers called: none, and one and two points
\* below the winning score.
ScoreDraws == {0, WINNING_SCORE - 2, WINNING_SCORE - 1}

\* The program after construction, its score manager with scores drawn.
InitScores ==
    \E p \in ScoreDraws, b \in ScoreDraws :
        InitAt([Started EXCEPT !.game.score_manager.player_score = p,
                               !.game.score_manager.bot_score = b],
               [type |-> "INIT"])

\* A call on the score manager: the step leaves all else alone.
CallScoreManager(name) ==
    /\ steps < MaxCalls
    /\ steps' = steps + 1
    /\ last_event' = [type |-> name]
    /\ UNCHANGED <<config, screen, state, player_paddle, bot_paddle, ball,
                   bot_controller, keys_pressed, current_difficulty,
                   menu_buttons, pause_buttons, play_again_button,
                   reset_timer, waiting_for_reset, last_scorer,
                   now, mouse_pos, iter_state, keys_held>>

\* score_manager.increment_player_score()
CallIncrementPlayerScore ==
    /\ CallScoreManager("increment_player_score")
    /\ score_manager' = increment_player_score(score_manager)
    /\ UNCHANGED winner

\* score_manager.increment_bot_score()
CallIncrementBotScore ==
    /\ CallScoreManager("increment_bot_score")
    /\ score_manager' = increment_bot_score(score_manager)
    /\ UNCHANGED winner

\* winner = score_manager.check_winner()
CallCheckWinner ==
    /\ CallScoreManager("check_winner")
    /\ winner' = check_winner(score_manager)
    /\ UNCHANGED score_manager

NextScores ==
    \/ CallIncrementPlayerScore
    \/ CallIncrementBotScore
    \/ CallCheckWinner

\* The score manager under any sequence of calls.
SpecScores == InitScores /\ [][NextScores]_vars

\* --------------------------------------------- the config, called directly

\* The window sizes given to update_screen_size: below, at and above the
\* minimum.
ConfigWidths == {MIN_WIDTH - 200, MIN_WIDTH - 1, MIN_WIDTH, MIN_WIDTH + 1,
                 SCREEN_WIDTH, 2 * SCREEN_WIDTH}

ConfigHeights == {MIN_HEIGHT - 100, MIN_HEIGHT - 1, MIN_HEIGHT, MIN_HEIGHT + 1,
                  SCREEN_HEIGHT, 2 * SCREEN_HEIGHT}

\* config.update_screen_size(w, h)
CallUpdateScreenSize ==
    \E w \in ConfigWidths, h \in ConfigHeights :
        /\ steps < MaxCalls
        /\ steps' = steps + 1
        /\ config' = update_screen_size(w, h)
        /\ last_event' = [w |-> w, h |-> h, type |-> "update_screen_size"]
        /\ UNCHANGED <<screen, state, score_manager, player_paddle, bot_paddle,
                       ball, bot_controller, keys_pressed, current_difficulty,
                       menu_buttons, pause_buttons, play_again_button, winner,
                       reset_timer, waiting_for_reset, last_scorer,
                       now, mouse_pos, iter_state, keys_held>>

\* The config under any sequence of calls.
SpecConfig == Init /\ [][CallUpdateScreenSize]_vars

\* ---------------------------------------------------------------- the claims

Escape == [type |-> "KEYDOWN", key |-> K_ESCAPE]

\* The step is a frame: update, render and the end of the iteration.
IsTick == last_event'.type = "TICK"

\* The step handles a click with the pointer inside the rectangle r.
ClickIn(r) ==
    /\ last_event'.type = "MOUSEBUTTONDOWN"
    /\ collidepoint(r, mouse_pos)

PaddleInViewport(p) ==
    /\ 0 <= p.y
    /\ p.y <= config.SCREEN_HEIGHT * Q - p.height

\* C1: in every state of a match both paddles lie inside the viewport:
\* 0 <= y <= viewport height - paddle height, with the current height of the
\* config and the current height of the paddle.
C1_PaddlesInViewport ==
    state \in {PLAYING, PAUSED} =>
        /\ PaddleInViewport(player_paddle)
        /\ PaddleInViewport(bot_paddle)

\* C2: the state leaves PLAYING in two ways only: the escape key press takes
\* it to PAUSED, and the frame in which a score reaches the winning score
\* takes it to GAME_OVER.
C2_PlayingLeaves ==
    [][(state = PLAYING /\ state' # PLAYING) =>
          \/ state' = PAUSED /\ last_event' = Escape
          \/ /\ state' = GAME_OVER
             /\ IsTick
             /\ check_winner(score_manager') # NoneStr]_vars

\* The frame of a match has ended the match.
C2_Witness ==
    /\ state = GAME_OVER
    /\ last_event.type = "TICK"
    /\ iter_state = GAME_OVER

\* C3: the state leaves MENU only by a click on one of the four difficulty
\* buttons, and then for PLAYING with the difficulty of the button.
C3_MenuLeaves ==
    [][(state = MENU /\ state' # MENU) =>
          /\ state' = PLAYING
          /\ Len(menu_buttons) = 4
          /\ \E i \in DOMAIN menu_buttons :
                /\ ClickIn(menu_buttons[i].rect)
                /\ current_difficulty' = menu_buttons[i].difficulty]_vars

\* A click in the menu has started a match.
C3_Witness ==
    /\ iter_state = MENU
    /\ state = PLAYING
    /\ last_event.type = "MOUSEBUTTONDOWN"
    /\ current_difficulty = EASY

\* C4, as claimed: no iteration of the loop that starts in GAME_OVER ends in
\* PLAYING.
C4_NoIterationToPlaying ==
    [][IsTick => ~(iter_state = GAME_OVER /\ state' = PLAYING)]_vars

\* C4: no event and no frame takes the state from GAME_OVER to PLAYING: the
\* state leaves GAME_OVER only by a click on the play-again button, for MENU.
C4_GameOverLeaves ==
    [][(state = GAME_OVER /\ state' # GAME_OVER) =>
          /\ state' = MENU
          /\ play_again_button # None
          /\ ClickIn(play_again_button)]_vars

\* The play-again click has led to the menu.
C4_Witness ==
    /\ iter_state = GAME_OVER
    /\ state = MENU
    /\ last_event.type = "MOUSEBUTTONDOWN"

\* What a pause must keep of the match.
MatchData ==
    <<score_manager, player_paddle, bot_paddle, ball, waiting_for_reset,
      reset_timer, last_scorer, bot_controller>>

\* C5: no step taken in PAUSED changes the scores, the paddles, the ball, the
\* wait, the last scorer or the bot's countdown; the state leaves PAUSED for
\* PLAYING by the escape key press or a click on the resume button, for MENU
\* by a click on the new-game button, and in no other way.
C5_PausedKeepsMatch ==
    [][state = PAUSED =>
          /\ MatchData' = MatchData
          /\ state' \in {PAUSED, PLAYING, MENU}
          /\ state' = PLAYING =>
                \/ last_event' = Escape
                \/ /\ "resume" \in DOMAIN pause_buttons
                   /\ ClickIn(pause_buttons["resume"])
          /\ state' = MENU =>
                /\ "new_game" \in DOMAIN pause_buttons
                /\ ClickIn(pause_buttons["new_game"])]_vars

\* A click on the resume button has resumed a match with points scored.
C5_Witness ==
    /\ iter_state = PAUSED
    /\ state = PLAYING
    /\ last_event.type = "MOUSEBUTTONDOWN"
    /\ score_manager.bot_score > 0

\* The match in the next state is a fresh match on the current difficulty.
FreshMatch ==
    LET H == config'.SCREEN_HEIGHT * Q
        W == config'.SCREEN_WIDTH * Q
        speed == scale_speed(config', DIFFICULTY_SETTINGS[current_difficulty'].ball_speed)
    IN  /\ get_scores(score_manager') = <<0, 0>>
        /\ ~waiting_for_reset'
        /\ last_scorer' = NoneStr
        /\ Abs(2 * player_paddle'.y + player_paddle'.height - H) <= Q
        /\ Abs(2 * bot_paddle'.y + bot_paddle'.height - H) <= Q
        /\ Abs(2 * ball'.x - W) <= Q
        /\ Abs(2 * ball'.y - H) <= Q
        /\ Abs(ball'.velocity_x) = speed
        /\ bot_controller'.reaction_delay = 0

\* C6: every step from MENU to PLAYING starts a fresh match: scores (0, 0),
\* no wait, no last scorer, the paddles centred, the ball at the centre of
\* the viewport with |velocity_x| the scaled speed of the difficulty, the
\* bot's countdown 0.
C6_MenuToPlayingIsFresh ==
    [][(state = MENU /\ state' = PLAYING) => FreshMatch]_vars

\* A match has been started after a match that was won.
C6_Witness ==
    /\ state = PLAYING
    /\ last_event.type = "MOUSEBUTTONDOWN"
    /\ winner # NoneStr
    /\ get_scores(score_manager) = <<0, 0>>

\* C7: a frame changes the scores by (0, 0), (1, 0) or (0, 1), and a score
\* goes down only at the start of a match.
C7_ScoreSteps ==
    [][/\ IsTick =>
            <<score_manager'.player_score - score_manager.player_score,
              score_manager'.bot_score - score_manager.bot_score>>
                \in {<<0, 0>>, <<1, 0>>, <<0, 1>>}
       /\ (\/ score_manager'.player_score < score_manager.player_score
           \/ score_manager'.bot_score < score_manager.bot_score) =>
            (state = MENU /\ state' = PLAYING)]_vars

\* The last frame has scored a point for the player.
C7_Witness ==
    /\ last_event.type = "TICK"
    /\ waiting_for_reset
    /\ \E dt \in FrameTimes : reset_timer + dt = now
    /\ last_scorer = "player"
    /\ score_manager.player_score > 0

\* C8: no score is above the winning score, and in PLAYING and PAUSED both
\* scores are below it.
C8_ScoresBelowThreshold ==
    /\ score_manager.player_score <= WINNING_SCORE
    /\ score_manager.bot_score <= WINNING_SCORE
    /\ state \in {PLAYING, PAUSED} =>
          /\ score_manager.player_score < WINNING_SCORE
          /\ score_manager.bot_score < WINNING_SCORE

\* A score has reached the winning score.
C8_Witness ==
    /\ state = GAME_OVER
    /\ WINNING_SCORE \in {score_manager.player_score, score_manager.bot_score}

\* The winner of the scores, by the rule of the claim.
WinnerOf(sm) ==
    IF sm.bot_score = WINNING_SCORE /\ sm.player_score # WINNING_SCORE THEN "Bot"
    ELSE IF sm.player_score = WINNING_SCORE /\ sm.bot_score # WINNING_SCORE THEN "Player"
    ELSE NoneStr

\* C9: the step in which a score reaches the winning score is a frame and
\* ends in GAME_OVER with the winner named after the side that reached it;
\* in GAME_OVER exactly one score is the winning score and the winner is
\* named after it.
C9_GameOverAtThreshold ==
    /\ [][(/\ WINNING_SCORE \notin {score_manager.player_score, score_manager.bot_score}
           /\ WINNING_SCORE \in {score_manager'.player_score, score_manager'.bot_score}) =>
              /\ IsTick
              /\ state' = GAME_OVER
              /\ winner' = WinnerOf(score_manager')]_vars
    /\ [](state = GAME_OVER =>
              /\ WinnerOf(score_manager) # NoneStr
              /\ winner = WinnerOf(score_manager))

\* The bot has won in the last frame.
C9_Witness ==
    /\ state = GAME_OVER
    /\ last_event.type = "TICK"
    /\ winner = "Bot"
    /\ score_manager.bot_score = WINNING_SCORE

\* C10: a frame during the wait after a point, less than RESET_DELAY_MS after
\* the point, moves nothing: the ball is at the centre of the current
\* viewport and at rest and stays so, the paddles keep their y, the bot's
\* countdown and the scores are as before.
C10_WaitMovesNothing ==
    [][(/\ IsTick
        /\ state = PLAYING
        /\ waiting_for_reset
        /\ now - reset_timer < RESET_DELAY_MS) =>
          /\ 2 * ball.x = config.SCREEN_WIDTH * Q
          /\ 2 * ball.y = config.SCREEN_HEIGHT * Q
          /\ ball.velocity_x = 0
          /\ ball.velocity_y = 0
          /\ ball' = ball
          /\ player_paddle'.y = player_paddle.y
          /\ bot_paddle'.y = bot_paddle.y
          /\ bot_controller' = bot_controller
          /\ score_manager' = score_manager]_vars

\* The ball has been served from its home position toward the side `dir`
\* (-1 the player's, 1 the bot's), aimed at the paddle p.
Relaunched(b, dir, p) ==
    /\ b.x = b.initial_x
    /\ b.y = b.initial_y
    /\ b.base_speed > 0
    /\ b.velocity_x = dir * b.base_speed
    /\ Sign(b.velocity_y) = Sign(PaddleCentre(p) - b.initial_y)

\* C11: the first frame in PLAYING that finds 2000 ms or more elapsed since
\* the point clears the wait flag and serves the ball from its home position
\* with |velocity_x| equal to the ball's current base speed, to the left when
\* the bot scored and to the right when the player scored, with velocity_y of
\* the sign of (centre y of the losing paddle - home y), 0 when they are equal.
C11_RelaunchAfterWait ==
    [][(/\ IsTick
        /\ state = PLAYING
        /\ waiting_for_reset
        /\ now - reset_timer >= RESET_DELAY_MS) =>
          /\ ~waiting_for_reset'
          /\ ball'.base_speed = ball.base_speed
          /\ ball'.initial_x = ball.initial_x
          /\ ball'.initial_y = ball.initial_y
          /\ last_scorer \in {"bot", "player"}
          /\ last_scorer = "bot" => Relaunched(ball', -1, player_paddle)
          /\ last_scorer = "player" => Relaunched(ball', 1, bot_paddle)]_vars

\* The ball has been served again after the wait: to the left and downward,
\* to the left and level, to the left and upward, and to the right.
C11_Witness ==
    /\ last_event.type = "TICK"
    /\ state = PLAYING
    /\ ~waiting_for_reset
    /\ last_scorer = "bot"
    /\ ball.x = ball.initial_x
    /\ ball.velocity_x = -ball.base_speed
    /\ ball.velocity_y > 0

C11_WitnessLevel ==
    /\ last_event.type = "TICK"
    /\ state = PLAYING
    /\ ~waiting_for_reset
    /\ last_scorer = "bot"
    /\ ball.x = ball.initial_x
    /\ ball.velocity_x = -ball.base_speed
    /\ ball.velocity_y = 0

C11_WitnessUpward ==
    /\ last_event.type = "TICK"
    /\ state = PLAYING
    /\ ~waiting_for_reset
    /\ last_scorer = "bot"
    /\ ball.x = ball.initial_x
    /\ ball.velocity_x = -ball.base_speed
    /\ ball.velocity_y < 0

C11_WitnessRight ==
    /\ last_event.type = "TICK"
    /\ state = PLAYING
    /\ ~waiting_for_reset
    /\ last_scorer = "player"
    /\ ball.x = ball.initial_x
    /\ ball.velocity_x = ball.base_speed
    /\ ball.velocity_y # 0

\* The frame scores a point.
ScoringTick ==
    /\ IsTick
    /\ state = PLAYING
    /\ score_manager' # score_manager

\* C12: in the frame in which a side scores exactly that side's score grows
\* by one and last_scorer names it, the ball is put at the centre of the
\* viewport with velocity (0, 0), the wait flag is set and the wait starts at
\* the current clock.
C12_ScoringTick ==
    [][ScoringTick =>
          /\ \/ /\ score_manager' = increment_bot_score(score_manager)
                /\ score_manager'.bot_score = score_manager.bot_score + 1
                /\ score_manager'.player_score = score_manager.player_score
                /\ last_scorer' = "bot"
             \/ /\ score_manager' = increment_player_score(score_manager)
                /\ score_manager'.player_score = score_manager.player_score + 1
                /\ score_manager'.bot_score = score_manager.bot_score
                /\ last_scorer' = "player"
          /\ ball'.x = (config.SCREEN_WIDTH \div 2) * Q
          /\ ball'.y = (config.SCREEN_HEIGHT \div 2) * Q
          /\ ball'.velocity_x = 0
          /\ ball'.velocity_y = 0
          /\ waiting_for_reset'
          /\ reset_timer' = now]_vars

\* The bot has scored a point that does not end the match.
C12_Witness ==
    /\ steps > 0
    /\ last_event.type = "TICK"
    /\ state = PLAYING
    /\ waiting_for_reset
    /\ last_scorer = "bot"
    /\ score_manager.bot_score = 1
    /\ reset_timer + RESET_DELAY_MS \div 2 = now
    /\ reset_timer > 0

\* The player has scored a second point.
C12_WitnessPlayer ==
    /\ last_event.type = "TICK"
    /\ state = PLAYING
    /\ waiting_for_reset
    /\ last_scorer = "player"
    /\ score_manager.player_score = 2

\* The ball is in flight: a match is on (played or paused) and no wait.
InFlight ==
    /\ state \in {PLAYING, PAUSED}
    /\ ~waiting_for_reset

\* C13: whenever the ball is in flight |velocity_x| equals the ball's base
\* speed, after any sequence of serves, paddle bounces, wall bounces and
\* resizes (a resize scales the velocity as it scales the base speed).
C13_BallSpeedKept ==
    InFlight => Abs(ball.velocity_x) = ball.base_speed

\* C14: after any call of Ball.reset_position, with direction -1, 0 or 1,
\* with or without a target y, the ball is at its home position and
\* velocity_x is the base speed times the direction, the direction being one
\* of -1 and 1 when 0 was given: |velocity_x| is exactly the base speed.
C14_ResetPosition ==
    [][last_event'.type = "reset_position" =>
          /\ ball'.x = ball.initial_x
          /\ ball'.y = ball.initial_y
          /\ ball'.initial_x = ball.initial_x
          /\ ball'.initial_y = ball.initial_y
          /\ ball'.base_speed = ball.base_speed
          /\ Abs(ball'.velocity_x) = ball.base_speed
          /\ last_event'.direction # 0 =>
                 ball'.velocity_x = last_event'.direction * ball.base_speed
          /\ last_event'.direction = 0 =>
                 ball'.velocity_x \in {-ball.base_speed, ball.base_speed}]_vars

\* reset_position(1, target) has sent a ball that was moving to the left, away
\* from its home position, to the right from its home position.
C14_Witness ==
    /\ last_event.type = "reset_position"
    /\ last_event.direction = 1
    /\ ball.x = ball.initial_x
    /\ ball.velocity_x = ball.base_speed
    /\ ball.velocity_y # 0
    /\ ball.base_speed > 0

\* C16: Ball.move adds the velocity to the position; when the moved ball
\* reaches or crosses the top (y - radius <= 0) or the bottom
\* (y + radius >= viewport height) velocity_y is negated and y is set to
\* radius or to viewport height - radius exactly; otherwise velocity_y is
\* unchanged; velocity_x is never changed.
C16_BallMove ==
    [][last_event'.type = "move" =>
          LET y1 == ball.y + ball.velocity_y
              H == config.SCREEN_HEIGHT * Q
          IN  /\ ball'.x = ball.x + ball.velocity_x
              /\ ball'.velocity_x = ball.velocity_x
              /\ ball'.radius = ball.radius
              /\ y1 - ball.radius <= 0 =>
                     /\ ball'.velocity_y = -ball.velocity_y
                     /\ ball'.y = ball.radius
              /\ (y1 - ball.radius > 0 /\ y1 + ball.radius >= H) =>
                     /\ ball'.velocity_y = -ball.velocity_y
                     /\ ball'.y = H - ball.radius
              /\ (y1 - ball.radius > 0 /\ y1 + ball.radius < H) =>
                     /\ ball'.velocity_y = ball.velocity_y
                     /\ ball'.y = y1]_vars

\* A move has bounced the ball off the top wall.
C16_Witness ==
    /\ last_event.type = "move"
    /\ ball.y = ball.radius
    /\ ball.velocity_y > 0
    /\ ball.velocity_x # 0

\* A move has bounced the ball off the bottom wall.
C16_WitnessBottom ==
    /\ last_event.type = "move"
    /\ ball.y = config.SCREEN_HEIGHT * Q - ball.radius
    /\ ball.velocity_y < 0
    /\ ball.velocity_x # 0

\* The paddle bounces of the frame that the step runs: the moved ball, the
\* ball after the test against the player's paddle, and the two tests.
MovedBall == Ball_move(ball, config.SCREEN_WIDTH, config.SCREEN_HEIGHT)

PlayerBounce ==
    /\ check_paddle_collision(MovedBall, player_paddle')
    /\ MovedBall.velocity_x < 0

AfterPlayerBounce ==
    IF PlayerBounce THEN bounce_off_paddle(MovedBall, player_paddle') ELSE MovedBall

BotBounce ==
    /\ check_paddle_collision(AfterPlayerBounce, bot_paddle')
    /\ AfterPlayerBounce.velocity_x > 0

\* The step is a frame of a rally.
RallyTick ==
    /\ IsTick
    /\ state = PLAYING
    /\ ~waiting_for_reset

\* The step is a frame of a rally in which the ball bounces off a paddle and
\* no point is scored.
BounceTick ==
    /\ RallyTick
    /\ PlayerBounce \/ BotBounce
    /\ score_manager' = score_manager

\* A frame of a rally in which the ball bounces off a paddle flips the sign
\* of velocity_x.
PaddleBounceFlips ==
    [][BounceTick =>
          /\ ball.velocity_x # 0
          /\ ball'.velocity_x = -ball.velocity_x]_vars

\* C15: after every paddle bounce of a frame (the ball's bounding square
\* overlaps the paddle's rectangle and the ball moves toward that paddle) the
\* sign of velocity_x is flipped and |velocity_y| <= 0.8 * base_speed.
C15_PaddleBounce ==
    [][BounceTick =>
          /\ ball.velocity_x # 0
          /\ Sign(ball'.velocity_x) = -Sign(ball.velocity_x)
          /\ 10 * Abs(ball'.velocity_y) <= 8 * ball'.base_speed]_vars

\* The step handles a resize of the window.
IsResize == last_event'.type = "VIDEORESIZE"

\* C17: a resize while PLAYING keeps the relative position of the paddles and
\* of the ball: the new y is the old y / old viewport height * new viewport
\* height (x with the widths, for the ball), and the height of the paddles
\* is the one the new viewport gives.
C17_ResizeKeepsRatio ==
    [][(IsResize /\ state = PLAYING) =>
          /\ player_paddle'.y =
                 MulDiv(player_paddle.y, config'.SCREEN_HEIGHT, config.SCREEN_HEIGHT)
          /\ bot_paddle'.y =
                 MulDiv(bot_paddle.y, config'.SCREEN_HEIGHT, config.SCREEN_HEIGHT)
          /\ player_paddle'.height = config'.PADDLE_HEIGHT * Q
          /\ bot_paddle'.height = config'.PADDLE_HEIGHT * Q
          /\ ball'.x = MulDiv(ball.x, config'.SCREEN_WIDTH, config.SCREEN_WIDTH)
          /\ ball'.y = MulDiv(ball.y, config'.SCREEN_HEIGHT, config.SCREEN_HEIGHT)]_vars

\* A resize while PLAYING gives the paddles the height of the new viewport.
ResizeSetsPaddleHeight ==
    [][(IsResize /\ state = PLAYING) =>
          /\ player_paddle'.height = config'.PADDLE_HEIGHT * Q
          /\ bot_paddle'.height = config'.PADDLE_HEIGHT * Q]_vars

\* The countdown of the bot, None when there is no bot.
ReactionDelay(bc) == IF bc = None THEN None ELSE Some(bc.reaction_delay)

\* C18: the handling of a resize event, in any session state, leaves the
\* session state, both scores, the wait flag, the last scorer, the set of
\* pressed keys and the bot's reaction countdown unchanged.
C18_ResizeFrame ==
    [][IsResize =>
          /\ state' = state
          /\ score_manager' = score_manager
          /\ waiting_for_reset' = waiting_for_reset
          /\ last_scorer' = last_scorer
          /\ keys_pressed' = keys_pressed
          /\ ReactionDelay(bot_controller') = ReactionDelay(bot_controller)]_vars

\* A resize has been handled in PLAYING with a key held, points scored and
\* the bot counting down, and it has changed the viewport.
C18_Witness ==
    /\ last_event.type = "VIDEORESIZE"
    /\ state = PLAYING
    /\ keys_pressed # {}
    /\ score_manager.bot_score > 0
    /\ last_scorer = "bot"
    /\ bot_controller.reaction_delay > 0
    /\ config.SCREEN_WIDTH # SCREEN_WIDTH

\* A resize has been handled in PAUSED, and one in GAME_OVER, and one in MENU
\* after a match.
C18_WitnessPaused ==
    /\ last_event.type = "VIDEORESIZE"
    /\ state = PAUSED

C18_WitnessGameOver ==
    /\ last_event.type = "VIDEORESIZE"
    /\ state = GAME_OVER

C18_WitnessMenu ==
    /\ last_event.type = "VIDEORESIZE"
    /\ state = MENU
    /\ bot_controller # None

\* The direction of the player's paddle that the held keys ask for: up alone
\* is -1, down alone is 1, neither and both are 0.
HeldDirection ==
    IF "up" \in keys_pressed /\ "down" \notin keys_pressed THEN -1
    ELSE IF "down" \in keys_pressed /\ "up" \notin keys_pressed THEN 1
    ELSE 0

\* C19: in a frame of a rally the player's paddle moves in the direction -1
\* when only up is held, 1 when only down is held and 0 when neither or both
\* are held: with both keys held the paddle's y does not change.
C19_PlayerDirection ==
    [][RallyTick =>
          /\ player_paddle'.velocity = HeldDirection * player_paddle.speed
          /\ {"up", "down"} \subseteq keys_pressed =>
                 player_paddle'.y = player_paddle.y]_vars

\* In a frame of a rally with one key or no key held the player's paddle
\* moves in the direction of the key.
OneKeyDirection ==
    [][(RallyTick /\ ~({"up", "down"} \subseteq keys_pressed)) =>
          player_paddle'.velocity = HeldDirection * player_paddle.speed]_vars

\* The step is a call of BotController.update.
IsBotUpdate == last_event'.type = "update"

\* C20: a call of BotController.update with the countdown above 0 lowers it
\* by exactly one, keeps the stored target and moves the paddle no farther
\* from it; a call with the countdown at 0 takes a new target from the
\* ball's y (within the error range of the difficulty) and draws a new
\* countdown in 0..max_reaction_delay; hence the countdown stays in
\* 0..max_reaction_delay, and a countdown of d is followed by d calls that
\* keep the target.
C20_BotCountdown ==
    /\ [][IsBotUpdate =>
            IF bot_controller.reaction_delay > 0
            THEN /\ bot_controller'.reaction_delay = bot_controller.reaction_delay - 1
                 /\ bot_paddle'.target_y = bot_paddle.target_y
                 /\ Abs(bot_paddle'.target_y - bot_paddle'.y)
                        <= Abs(bot_paddle.target_y - bot_paddle.y)
            ELSE /\ Abs(bot_paddle'.target_y - (ball.y - bot_paddle.height \div 2))
                        <= error_range(bot_controller.difficulty) * Q
                 /\ bot_controller'.reaction_delay \in
                        0..bot_controller.max_reaction_delay]_vars
    /\ [](bot_controller # None =>
            bot_controller.reaction_delay \in 0..bot_controller.max_reaction_delay)

\* On MEDIUM the bot has aimed at the ball at its home position, 16 px off,
\* and has counted a countdown down to 0 while the ball moved away.
C20_Witness ==
    /\ last_event.type = "update"
    /\ current_difficulty = MEDIUM
    /\ bot_controller.reaction_delay = 0
    /\ bot_paddle.target_y = ball.initial_y - bot_paddle.height \div 2 + 16 * Q
    /\ ball.y # ball.initial_y
    /\ bot_paddle.y # bot_paddle.target_y

\* C21: check_winner returns Player exactly when player_score >=
\* winning_score, Bot exactly when player_score < winning_score and
\* bot_score >= winning_score, None exactly when both scores are below
\* winning_score; it changes neither score.
C21_CheckWinner ==
    [][last_event'.type = "check_winner" =>
          LET p == score_manager.player_score
              b == score_manager.bot_score
              w == score_manager.winning_score
          IN  /\ winner' = "Player" <=> p >= w
              /\ winner' = "Bot" <=> (p < w /\ b >= w)
              /\ winner' = NoneStr <=> (p < w /\ b < w)
              /\ score_manager' = score_manager]_vars

\* check_winner has returned Player with both scores at the winning score.
C21_Witness ==
    /\ last_event.type = "check_winner"
    /\ winner = "Player"
    /\ score_manager.player_score >= score_manager.winning_score
    /\ score_manager.bot_score >= score_manager.winning_score

\* check_winner has returned Bot, and None.
C21_WitnessBot ==
    /\ last_event.type = "check_winner"
    /\ winner = "Bot"
    /\ score_manager.bot_score > score_manager.winning_score

C21_WitnessNone ==
    /\ last_event.type = "check_winner"
    /\ winner = NoneStr
    /\ score_manager.bot_score = score_manager.winning_score - 1
    /\ score_manager.player_score = score_manager.winning_score - 1

\* What the simulation step works on: the paddles, the ball, the bot, the
\* scores, the wait and the winner.
Simulated ==
    <<player_paddle, bot_paddle, ball, bot_controller, score_manager,
      waiting_for_reset, reset_timer, last_scorer, winner>>

\* The original of C22: an iteration of the loop in which the pause trigger
\* is processed performs no simulation step.  The iteration began in PLAYING
\* and the last event it handled is the escape key: one escape has paused.
C22_PauseIterationIdle ==
    [][(IsTick /\ iter_state = PLAYING /\ last_event = Escape) =>
          UNCHANGED Simulated]_vars

\* C22: the frame that ends an iteration, run after all the events of the
\* iteration are handled, changes paddles, ball, bot, scores, wait and
\* winner only if the state the events have left is PLAYING: frames in MENU,
\* PAUSED and GAME_OVER leave them unchanged, and so does the frame of an
\* iteration whose events end in PAUSED.
C22_StepOnlyIfPlaying ==
    [][(IsTick /\ state # PLAYING) =>
          /\ UNCHANGED Simulated
          /\ state' = state]_vars

\* A frame has been run in PAUSED, in the iteration that paused a rally.
C22_Witness ==
    /\ steps > 1
    /\ last_event.type = "TICK"
    /\ state = PAUSED
    /\ ~waiting_for_reset
    /\ ball.velocity_x # 0
    /\ keys_pressed # {}

\* C23: update_screen_size(w, h) sets SCREEN_WIDTH = max(w, 600) and
\* SCREEN_HEIGHT = max(h, 400); the config it leaves is the one the clamped
\* width and height alone give (applying it to its own clamped output
\* yields the same config), and applying it twice with the same (w, h)
\* yields the same config.
C23_UpdateScreenSize ==
    [][last_event'.type = "update_screen_size" =>
          /\ config'.SCREEN_WIDTH = Max(last_event'.w, 600)
          /\ config'.SCREEN_HEIGHT = Max(last_event'.h, 400)
          /\ config' = update_screen_size(config'.SCREEN_WIDTH, config'.SCREEN_HEIGHT)
          /\ config' = update_screen_size(last_event'.w, last_event'.h)
          /\ last_event = last_event' => config' = config]_vars

\* update_screen_size has been applied more than once, last to a size narrower
\* than the minimum width and lower than the minimum height.
C23_Witness ==
    /\ steps > 1
    /\ last_event.type = "update_screen_size"
    /\ last_event.w < MIN_WIDTH
    /\ last_event.h < MIN_HEIGHT
    /\ config.SCREEN_WIDTH = MIN_WIDTH
    /\ config.SCREEN_HEIGHT = MIN_HEIGHT

\* The frame finds the ball, moved, on the player's paddle and moving away
\* from it.
OnPlayerPaddleLeaving ==
    /\ check_paddle_collision(MovedBall, player_paddle')
    /\ ball.velocity_x > 0

\* The frame finds the ball, moved, on the bot's paddle and moving away from
\* it.
OnBotPaddleLeaving ==
    /\ check_paddle_collision(MovedBall, bot_paddle')
    /\ ball.velocity_x < 0

\* C24: in a frame of a rally the player's paddle bounces the ball only when
\* velocity_x < 0 and the bot's paddle only when velocity_x > 0; the two do
\* not both bounce it, so the sign of velocity_x is flipped at most once; and
\* a ball that lies on a paddle and moves away from it (as after a bounce off
\* that paddle) keeps its velocity_x in the frame.
C24_DirectionalGuard ==
    [][(RallyTick /\ score_manager' = score_manager) =>
          /\ ~(PlayerBounce /\ BotBounce)
          /\ PlayerBounce => (ball.velocity_x < 0 /\ ball'.velocity_x > 0)
          /\ BotBounce => (ball.velocity_x > 0 /\ ball'.velocity_x < 0)
          /\ ball'.velocity_x = IF PlayerBounce \/ BotBounce
                                 THEN -ball.velocity_x ELSE ball.velocity_x
          /\ OnPlayerPaddleLeaving => ball'.velocity_x = ball.velocity_x
          /\ OnBotPaddleLeaving => ball'.velocity_x = ball.velocity_x]_vars

\* The ball one frame back along its velocity.
FrameBack(b) ==
    [b EXCEPT !.x = @ - b.velocity_x, !.y = @ - b.velocity_y]

\* After a frame of a rally the ball moves away from the player's paddle and
\* lies on it, and a frame back it lay on it with the velocity a bounce off
\* the paddle gives there: the frame before bounced it, and this frame found
\* it still on the paddle.
C24_Witness ==
    /\ steps > 1
    /\ last_event.type = "TICK"
    /\ state = PLAYING
    /\ ~waiting_for_reset
    /\ ball.velocity_x > 0
    /\ player_paddle.velocity = 0
    /\ check_paddle_collision(ball, player_paddle)
    /\ check_paddle_collision(FrameBack(ball), player_paddle)
    /\ bounce_off_paddle([FrameBack(ball) EXCEPT !.velocity_x = -ball.velocity_x],
                         player_paddle).velocity_y = ball.velocity_y

\* A frame of a rally has bounced the ball off the bot's paddle.
C24_WitnessBot ==
    /\ steps > 0
    /\ last_event.type = "TICK"
    /\ state = PLAYING
    /\ ~waiting_for_reset
    /\ ball.velocity_x < 0
    /\ check_paddle_collision(ball, bot_paddle)

\* The directions of the movement keys the user holds.
HeldDirections == {KeyDirection(key) : key \in keys_held}

\* C25: in every frame of a rally, which applies the player's input, the
\* set keys_pressed holds only directions of movement keys the user holds
\* down: a key released while PAUSED, in the MENU or in GAME_OVER is not in
\* the set when play goes on, and none is left over in a new match.
C25_KeysPressedAreHeld ==
    [][RallyTick => keys_pressed \subseteq HeldDirections]_vars

\* The paddles and the ball have the sizes, the columns, the speeds and the
\* home the current config gives.
GeometryOfConfig ==
    LET settings == get_difficulty_settings(current_difficulty)
    IN  /\ player_paddle.x = config.PADDLE_OFFSET * Q
        /\ player_paddle.width = config.PADDLE_WIDTH * Q
        /\ player_paddle.height = config.PADDLE_HEIGHT * Q
        /\ player_paddle.speed = config.PLAYER_SPEED
        /\ bot_paddle.x = (config.SCREEN_WIDTH - config.PADDLE_OFFSET
                            - config.PADDLE_WIDTH) * Q
        /\ bot_paddle.width = config.PADDLE_WIDTH * Q
        /\ bot_paddle.height = config.PADDLE_HEIGHT * Q
        /\ bot_paddle.speed = scale_speed(config, settings.bot_speed)
        /\ ball.radius = config.BALL_RADIUS * Q
        /\ ball.initial_x = (config.SCREEN_WIDTH \div 2) * Q
        /\ ball.initial_y = (config.SCREEN_HEIGHT \div 2) * Q
        /\ ball.base_speed = scale_speed(config, settings.ball_speed)

\* C26: at every frame run in state PLAYING the width, height, x and speed
\* of each paddle and the radius, home position and base speed of the ball
\* are the ones derived from the current config, also after a resize of the
\* window while PAUSED.
C26_GeometryOfConfig == [][(IsTick /\ state = PLAYING) => GeometryOfConfig]_vars

\* The ball of the frame after its movement and the paddle bounces.
AfterBounces ==
    IF BotBounce THEN bounce_off_paddle(AfterPlayerBounce, bot_paddle')
    ELSE AfterPlayerBounce

\* C27: a frame of a rally gives the bot a point only if the ball, moved and
\* bounced, is wholly past the left edge (x + radius < 0), and the player a
\* point only if it is wholly past the right edge (x - radius > width): a
\* ball that only overlaps an edge scores nothing.
C27_ScoresPastEdge ==
    [][RallyTick =>
          /\ score_manager'.bot_score # score_manager.bot_score
                => AfterBounces.x + AfterBounces.radius < 0
          /\ score_manager'.player_score # score_manager.player_score
                => AfterBounces.x - AfterBounces.radius > config.SCREEN_WIDTH * Q]_vars

\* The points scored in the match so far.
PointsScored == score_manager.player_score + score_manager.bot_score

\* The step is a frame run in state PLAYING during the wait after a point.
WaitTick ==
    /\ IsTick
    /\ state = PLAYING
    /\ waiting_for_reset

\* C28: reset_timer holds the clock of the last point of the match, and a
\* frame that scores a further point runs at least RESET_DELAY_MS after it;
\* a frame run during the wait scores nothing, leaves the ball as it is
\* while less than RESET_DELAY_MS have elapsed, and otherwise ends the wait
\* with the ball at its home, not moved by its new velocity.
C28_PointsApart ==
    [][/\ (ScoringTick /\ PointsScored > 0) => now - reset_timer >= RESET_DELAY_MS
       /\ ScoringTick => (reset_timer' = now /\ waiting_for_reset')
       /\ (score_manager' = score_manager /\ ~(state = MENU /\ state' = PLAYING))
             => reset_timer' = reset_timer
       /\ WaitTick => score_manager' = score_manager
       /\ (WaitTick /\ now - reset_timer < RESET_DELAY_MS)
             => (waiting_for_reset' /\ ball' = ball)
       /\ (WaitTick /\ now - reset_timer >= RESET_DELAY_MS)
             => /\ ~waiting_for_reset'
                /\ ball'.x = ball.initial_x
                /\ ball'.y = ball.initial_y]_vars

\* A second point of the match has been scored, in the frame before.
C28_Witness ==
    /\ steps > 0
    /\ last_event.type = "TICK"
    /\ state = PLAYING
    /\ waiting_for_reset
    /\ PointsScored = 2
    /\ now - reset_timer = RESET_DELAY_MS \div 2

\* The step is the first frame run in PLAYING after a resume from PAUSED.
ResumeTick ==
    /\ IsTick
    /\ iter_state = PAUSED
    /\ state = PLAYING

\* C29: the wait after a point runs on the clock from the scoring frame and
\* is not held up by a pause: a frame run while PAUSED advances the clock
\* and leaves the start of the wait and the wait flag alone, the resume
\* leaves them alone, and the first frame after the resume, if it finds
\* RESET_DELAY_MS elapsed since the point, serves the ball.
C29_WaitRunsWhilePaused ==
    [][/\ (IsTick /\ state = PAUSED /\ waiting_for_reset)
             => /\ now' > now
                /\ reset_timer' = reset_timer
                /\ waiting_for_reset'
       /\ (state = PAUSED /\ state' = PLAYING)
             => /\ reset_timer' = reset_timer
                /\ waiting_for_reset' = waiting_for_reset
       /\ (ResumeTick /\ waiting_for_reset /\ now - reset_timer >= RESET_DELAY_MS)
             => /\ ~waiting_for_reset'
                /\ ball'.x = ball.initial_x
                /\ ball'.y = ball.initial_y
                /\ Abs(ball'.velocity_x) = ball.base_speed]_vars

\* The ball has just been served, by a frame that found the wait a frame
\* longer than RESET_DELAY_MS: the frame before it was run while PAUSED.
C29_Witness ==
    /\ last_event.type = "TICK"
    /\ state = PLAYING
    /\ ~waiting_for_reset
    /\ last_scorer # NoneStr
    /\ ball.x = ball.initial_x
    /\ ball.y = ball.initial_y
    /\ ball.velocity_x # 0
    /\ now - reset_timer = 2 * RESET_DELAY_MS

\* C30: a wait that has begun in a match that goes on ends: while the
\* program runs frames in PLAYING, the wait flag set leads to the wait flag
\* cleared with the ball served (velocity_x # 0); and a new match begins
\* with the flag cleared.
C30_WaitEnds ==
    /\ (waiting_for_reset /\ state = PLAYING)
          ~> (~waiting_for_reset /\ ball.velocity_x # 0)
    /\ [][(state = MENU /\ state' = PLAYING) => ~waiting_for_reset']_vars

\* The wait after a point has ended with the ball served.
C30_Witness ==
    /\ steps > 1
    /\ last_event.type = "TICK"
    /\ state = PLAYING
    /\ last_scorer # NoneStr
    /\ ~waiting_for_reset
    /\ ball.velocity_x # 0
    /\ now - reset_timer >= RESET_DELAY_MS

\* A new match has begun after a match whose last point left the flag set.
C30_WitnessNewMatch ==
    /\ last_event.type = "MOUSEBUTTONDOWN"
    /\ state = PLAYING
    /\ winner # NoneStr
    /\ ~waiting_for_reset

====
